---- MODULE Spec2Model ----
(***************************************************************************)
(* Task lifecycle, history store and notification scheduling of the todo   *)
(* chatbot backend, modelled from                                          *)
(*   backend/hf_deployment/src/services/{task,history,scheduler}_service.py *)
(*   backend/hf_deployment/todo_chatbot/src/services/task_service.py       *)
(*   backend/hf_deployment/todo_chatbot/src/mcp/tools.py                   *)
(*   backend/todo_chatbot/src/services/task_service_enhanced.py            *)
(* All of them read and write one shared store (tasks, task_history and    *)
(* the APScheduler job store).                                             *)
(*                                                                         *)
(* Datetimes are minutes since 2024-01-01T00:00Z.  Python's None is        *)
(* NoDate / NoInt for datetimes and integers and NoneS for strings.        *)
(***************************************************************************)
EXTENDS Integers, Sequences, FiniteSets, TLC

\* ------------------------------------------------------------------ bounds
\* requests served in one behaviour
MaxOps == 4
\* steps taken in one behaviour of interleaved requests
MaxSteps == 7
\* calls made on the scheduler in one behaviour
MaxCalls == 3
\* logged requests served in one behaviour
MaxReqs == 3
\* calls made in one behaviour of the retention purge
MaxPurges == 5
\* calls made in one behaviour of history queries
MaxQueries == 4
\* calls made in one behaviour of the life of a history entry
MaxArchived == 5
\* calls made on the scheduler and the tasks in one behaviour of the loop
MaxLoop == 4
\* calls made in one behaviour of updates
MaxUpdates == 3

\* ---------------------------------------------------------------- "None"
NoDate == -1
NoInt == -1
NoneS == "None"

\* ------------------------------------------------------------- calendar
\* timedelta(days=1) in minutes
MinutesPerDay == 1440

IsLeap(y) == (y % 4 = 0 /\ y % 100 # 0) \/ y % 400 = 0

DaysInMonth(y, m) ==
    IF m = 2 THEN (IF IsLeap(y) THEN 29 ELSE 28)
    ELSE IF m \in {4, 6, 9, 11} THEN 30 ELSE 31

DaysInYear(y) == IF IsLeap(y) THEN 366 ELSE 365

RECURSIVE DaysBeforeYear(_)
DaysBeforeYear(y) ==
    IF y <= 2024 THEN 0 ELSE DaysBeforeYear(y - 1) + DaysInYear(y - 1)

RECURSIVE DaysBeforeMonth(_, _)
DaysBeforeMonth(y, m) ==
    IF m <= 1 THEN 0 ELSE DaysBeforeMonth(y, m - 1) + DaysInMonth(y, m - 1)

\* datetime(y, m, d, hh, mi, tzinfo=UTC)
DT(y, m, d, hh, mi) ==
    (DaysBeforeYear(y) + DaysBeforeMonth(y, m) + (d - 1)) * MinutesPerDay
        + hh * 60 + mi

RECURSIVE YearOfDay(_, _)
YearOfDay(n, y) ==
    IF n < DaysInYear(y) THEN y ELSE YearOfDay(n - DaysInYear(y), y + 1)

RECURSIVE MonthOfDay(_, _, _)
MonthOfDay(n, y, m) ==
    IF n < DaysInMonth(y, m) THEN m ELSE MonthOfDay(n - DaysInMonth(y, m), y, m + 1)

YearOf(t) == YearOfDay(t \div MinutesPerDay, 2024)
MonthOf(t) ==
    MonthOfDay((t \div MinutesPerDay) - DaysBeforeYear(YearOf(t)), YearOf(t), 1)
DayOf(t) ==
    (t \div MinutesPerDay) - DaysBeforeYear(YearOf(t))
        - DaysBeforeMonth(YearOf(t), MonthOf(t)) + 1
MinuteOfDay(t) == t % MinutesPerDay

Min(a, b) == IF a < b THEN a ELSE b

\* relativedelta(months=n) that keeps the day of the month and lets it run
\* over into the month after
AddMonths_unclamped(t, n) ==
    LET total == (YearOf(t) * 12 + (MonthOf(t) - 1)) + n
        y == total \div 12
        m == (total % 12) + 1
    IN  DT(y, m, DayOf(t), 0, 0) + MinuteOfDay(t)

\* dateutil: t + relativedelta(months=n), the day clamped to the target month
AddMonths(t, n) ==
    LET total == (YearOf(t) * 12 + (MonthOf(t) - 1)) + n
        y == total \div 12
        m == (total % 12) + 1
        d == Min(DayOf(t), DaysInMonth(y, m))
    IN  DT(y, m, d, 0, 0) + MinuteOfDay(t)

\* dateutil: t + relativedelta(years=n)
AddYears(t, n) ==
    LET y == YearOf(t) + n
        m == MonthOf(t)
        d == Min(DayOf(t), DaysInMonth(y, m))
    IN  DT(y, m, d, 0, 0) + MinuteOfDay(t)

\* --------------------------------------------------- RecurrenceCalculator
AllPatterns == {"daily", "weekly", "bi-weekly", "monthly", "yearly"}

\* RecurrencePattern.is_valid
is_valid(p) == p \in AllPatterns

\* calculate_next_occurrence that returns the date it was given
calculate_next_occurrence_same(current_due, pattern) == current_due

\* RecurrenceCalculator.calculate_next_occurrence, for an aware datetime
\* and a valid pattern (the callers below check both before calling)
calculate_next_occurrence(current_due, pattern) ==
    CASE pattern = "daily" -> current_due + 1 * MinutesPerDay
      [] pattern = "weekly" -> current_due + 7 * MinutesPerDay
      [] pattern = "bi-weekly" -> current_due + 14 * MinutesPerDay
      [] pattern = "monthly" -> AddMonths(current_due, 1)
      [] pattern = "yearly" -> AddYears(current_due, 1)

\* ------------------------------------------------------------ input sets
Users == {1, 2}
\* the users who create tasks; the others only call on existing ones
Creators == {1}
Procs == {1, 2}

\* the instant the system is started at, and the clock values it may reach
StartTime == DT(2026, 1, 1, 0, 0)

\* due dates callers supply: one ahead of StartTime (a month end) and one
\* already past
DueSoon == DT(2026, 1, 31, 10, 0)
InputDues == {DueSoon}
InputPatterns == {"weekly", "monthly"}
InputReminders == {30}
InputTitles == {"a"}
PatchTitles == {"b"}
InputDescriptions == {"d"}
InputClientIds == {"c1"}

\* ----------------------------------------------------------------- Task
\* models/task.py: the defaults of the Task columns
NewTask(user_id, title, description) ==
    [user_id |-> user_id, title |-> title, description |-> description,
     completed |-> FALSE, client_id |-> NoneS, version |-> 1,
     due_date |-> NoDate, recurrence_pattern |-> NoneS,
     is_recurring |-> FALSE, reminder_minutes |-> 15,
     next_occurrence |-> NoDate]

\* Python truthiness of an Optional[str]
Truthy(s) == s # NoneS /\ s # ""

\* What the tasks table accepts at commit: reminder_minutes is declared
\* `int` (NOT NULL), and fix_schema.py installs chk_reminder_minutes and
\* chk_recurring_has_pattern.  A row violating them makes session.commit()
\* raise IntegrityError.
TaskRowOk_Unchecked(t) == TRUE

TaskRowOk(t) ==
    /\ t.reminder_minutes # NoInt
    /\ t.reminder_minutes >= 0 /\ t.reminder_minutes <= 1440
    /\ (t.is_recurring = FALSE
        \/ (t.is_recurring = TRUE /\ t.recurrence_pattern # NoneS
            /\ t.due_date # NoDate))

\* todo_chatbot Task.validate_recurrence: TRUE when it raises ValueError
validate_recurrence_raises(t) ==
    \/ (Truthy(t.recurrence_pattern) /\ t.due_date = NoDate)
    \/ (Truthy(t.recurrence_pattern)
        /\ t.recurrence_pattern \notin {"daily", "weekly", "monthly", "yearly"})

\* ---------------------------------------------------------- TaskHistory
\* relativedelta(years=2)
RetentionYears == 2

\* TaskHistory.__init__ raises (validate_action_type) for these arguments
TaskHistoryRaises(data) ==
    data.action_type = "COMPLETED" /\ data.can_restore

\* TaskHistory.__init__: retention_until when none was given, then
\* validate_action_type
TaskHistoryInit(data) ==
    [data EXCEPT
        !.retention_until = IF data.retention_until = NoDate
                            THEN AddYears(data.action_date, RetentionYears)
                            ELSE data.retention_until,
        !.can_restore = IF data.action_type = "DELETED" /\ ~data.can_restore
                        THEN TRUE ELSE data.can_restore]

\* TaskHistory.from_task
from_task(task, task_id, action_type, action_by, nw) ==
    TaskHistoryInit(
        [user_id |-> task.user_id,
         original_task_id |-> task_id,
         title |-> task.title,
         description |-> task.description,
         completed |-> task.completed,
         due_date |-> task.due_date,
         recurrence_pattern |->
            IF Truthy(task.recurrence_pattern)
            THEN task.recurrence_pattern ELSE NoneS,
         action_type |-> action_type,
         action_date |-> nw,
         action_by |-> action_by,
         can_restore |-> (action_type = "DELETED"),
         retention_until |-> NoDate])

\* ------------------------------------------------------------ variables
VARIABLES
    tasks,        \* tasks table: id -> row
    nextTaskId,   \* its id sequence
    history,      \* task_history table: id -> row
    nextHistId,   \* its id sequence
    jobs,         \* APScheduler job store: set of [id, run_at, args]
    now,          \* the clock
    sess,         \* per request in flight: what its session has loaded
    served,       \* number of requests served so far
    last,         \* the last call that was logged: its arguments and result
    scheduler_service  \* the global of scheduler_service.py: "None", or
                       \* "started" once initialize_scheduler has run

vars == <<tasks, nextTaskId, history, nextHistId, jobs, now, sess, served, last, scheduler_service>>

\* The store as one value, so that a handler is a function on stores
Store ==
    [tasks |-> tasks, nextTaskId |-> nextTaskId, history |-> history,
     nextHistId |-> nextHistId, jobs |-> jobs]

Idle == [op |-> "idle", pc |-> "done"]

Init ==
    /\ tasks = <<>>
    /\ nextTaskId = 1
    /\ history = <<>>
    /\ nextHistId = 1
    /\ jobs = {}
    /\ now = StartTime
    /\ sess = [p \in Procs |-> Idle]
    /\ served = 0
    /\ last = [op |-> "none"]
    /\ scheduler_service = "started"

\* ids a caller may name: the rows there have been, and one there has not
TaskIds == 1..nextTaskId
HistIds == 1..nextHistId

\* the handler leaves the store as S
Finish(S) ==
    /\ served < MaxOps
    /\ served' = served + 1
    /\ tasks' = S.tasks
    /\ nextTaskId' = S.nextTaskId
    /\ history' = S.history
    /\ nextHistId' = S.nextHistId
    /\ jobs' = S.jobs
    /\ UNCHANGED <<scheduler_service, now, sess, last>>

\* session.add(task); session.commit() of a new row
InsertTask(S, t) ==
    [S EXCEPT !.tasks = (S.nextTaskId :> t) @@ S.tasks,
              !.nextTaskId = S.nextTaskId + 1]

\* session.add(task); session.commit() of a row the session loaded as
\* `loaded` and the handler changed to `modified`: the UPDATE sets only the
\* columns that were changed
WriteTask(S, id, loaded, modified) ==
    [S EXCEPT !.tasks[id] =
        [f \in DOMAIN modified |->
            IF modified[f] # loaded[f] THEN modified[f] ELSE S.tasks[id][f]]]

\* session.delete(task); session.commit()
RemoveTask(S, id) ==
    [S EXCEPT !.tasks = [i \in (DOMAIN S.tasks) \ {id} |-> S.tasks[i]]]

\* get_task_by_id without the user_id condition of its WHERE clause
Found_any_owner(S, id, user_id) == id \in DOMAIN S.tasks

\* TaskService.get_task_by_id / session.get followed by the owner test
Found(S, id, user_id) ==
    id \in DOMAIN S.tasks /\ S.tasks[id].user_id = user_id

\* ------------------------------------------------------------ Scheduler
JobId(task_id, suffix) == <<task_id, suffix>>

\* scheduler.add_job(..., replace_existing=True)
AddJob(js, j) == {k \in js : k.id # j.id} \cup {j}

\* schedule_notification without the tests of lines 113 and 124
schedule_notification_unguarded(js, task_id, task_title, due_date, reminder_minutes, nw) ==
    AddJob(AddJob(js, [id |-> JobId(task_id, ToString(reminder_minutes)),
                       run_at |-> due_date - reminder_minutes,
                       args |-> <<task_id, task_title, reminder_minutes>>]),
           [id |-> JobId(task_id, "due"), run_at |-> due_date,
            args |-> <<task_id, task_title, 0>>])

\* SchedulerService.schedule_notification
schedule_notification(js, task_id, task_title, due_date, reminder_minutes, nw) ==
    LET reminder_time == due_date - reminder_minutes
        js1 == IF reminder_time > nw
               THEN AddJob(js, [id |-> JobId(task_id, ToString(reminder_minutes)),
                                run_at |-> reminder_time,
                                args |-> <<task_id, task_title, reminder_minutes>>])
               ELSE js
    IN  IF due_date > nw
        THEN AddJob(js1, [id |-> JobId(task_id, "due"),
                          run_at |-> due_date,
                          args |-> <<task_id, task_title, 0>>])
        ELSE js1

\* SchedulerService.cancel_notification
cancel_notification(js, task_id) ==
    {k \in js : k.id \notin {JobId(task_id, "15"), JobId(task_id, "due")}}

\* ------------------------------------------------------- HistoryService
\* create_history_entry that keeps one entry for each task: the new entry
\* takes the place of the earlier ones
create_history_entry_replacing(S, task, task_id, action_type, action_by, nw) ==
    [S EXCEPT !.history = (S.nextHistId :>
                              from_task(task, task_id, action_type, action_by, nw))
                          @@ [h \in {k \in DOMAIN S.history :
                                        S.history[k].original_task_id # task_id}
                                |-> S.history[h]],
              !.nextHistId = S.nextHistId + 1]

\* HistoryService.create_history_entry when it does not raise
create_history_entry(S, task, task_id, action_type, action_by, nw) ==
    [S EXCEPT !.history = (S.nextHistId :>
                              from_task(task, task_id, action_type, action_by, nw))
                          @@ S.history,
              !.nextHistId = S.nextHistId + 1]

\* what a handler leaves and returns
Ret(S, result) == [S |-> S, result |-> result]

\* ------------------------------------- hf_deployment/src TaskService
\* TaskService.create_task
create_task(S, user_id, title, description, client_id, due_date) ==
    Ret(InsertTask(S, [NewTask(user_id, title, description) EXCEPT
                          !.client_id = client_id, !.due_date = due_date]),
        "ok")

\* TaskService.create_recurring_instance
create_recurring_instance(S, original_task, nw) ==
    IF ~original_task.is_recurring THEN Ret(S, "ValueError")
    ELSE IF original_task.due_date = NoDate
            \/ ~Truthy(original_task.recurrence_pattern)
    THEN Ret(S, "ValueError")
    ELSE
    LET next_due == calculate_next_occurrence(original_task.due_date,
                                              original_task.recurrence_pattern)
        new_task == [NewTask(original_task.user_id, original_task.title,
                             original_task.description) EXCEPT
                        !.due_date = next_due,
                        !.recurrence_pattern = original_task.recurrence_pattern,
                        !.is_recurring = TRUE,
                        !.reminder_minutes = original_task.reminder_minutes,
                        !.next_occurrence = NoDate,
                        !.completed = FALSE,
                        !.client_id = NoneS]
        S1 == InsertTask(S, new_task)
    IN  IF ~TaskRowOk(new_task) THEN Ret(S, "IntegrityError")
        ELSE Ret([S1 EXCEPT !.jobs =
                    schedule_notification(S1.jobs, S.nextTaskId, new_task.title,
                                          new_task.due_date,
                                          new_task.reminder_minutes, nw)],
                 "ok")

\* the fields TaskService.update_task copies from task_data when not None
ApplyTaskUpdate(task, task_data) ==
    [task EXCEPT
        !.title = IF task_data.title # NoneS THEN task_data.title ELSE @,
        !.description = IF task_data.description # NoneS
                        THEN task_data.description ELSE @,
        !.completed = IF task_data.completed # "None"
                      THEN (task_data.completed = "True") ELSE @,
        !.due_date = IF task_data.due_date # NoDate
                     THEN task_data.due_date ELSE @]

\* TaskService.update_task from line 104 on, `task` being the row as the
\* session loaded it at line 100; hist_ok: create_history_entry does not raise
update_task_apply(S, task_id, user_id, task, task_data, hist_ok, nw) ==
    LET was_incomplete == ~task.completed
        is_being_completed == task_data.completed = "True"
        changed == [ApplyTaskUpdate(task, task_data) EXCEPT
                        !.version = task.version + 1]
    IN  IF task_id \notin DOMAIN S.tasks THEN Ret(S, "StaleDataError")
        ELSE
        LET S1 == WriteTask(S, task_id, task, changed)
            refreshed == S1.tasks[task_id]
            S2 == IF was_incomplete /\ is_being_completed /\ hist_ok
                  THEN create_history_entry(S1, refreshed, task_id,
                                            "COMPLETED", user_id, nw)
                  ELSE S1
            S3 == IF was_incomplete /\ is_being_completed
                     /\ refreshed.is_recurring
                     /\ refreshed.due_date # NoDate
                     /\ Truthy(refreshed.recurrence_pattern)
                  THEN create_recurring_instance(S2, refreshed, nw).S
                  ELSE S2
        IN  IF ~TaskRowOk(refreshed) THEN Ret(S, "IntegrityError")
            ELSE Ret(S3, "ok")

\* TaskService.update_task
update_task(S, task_id, user_id, task_data, hist_ok, nw) ==
    IF ~Found(S, task_id, user_id) THEN Ret(S, "NotFound")
    ELSE update_task_apply(S, task_id, user_id, S.tasks[task_id], task_data,
                           hist_ok, nw)

\* TaskService.delete_task; hist_ok: create_history_entry does not raise
delete_task(S, task_id, user_id, hist_ok, nw) ==
    IF ~Found(S, task_id, user_id) THEN Ret(S, "NotFound")
    ELSE
    LET S1 == IF hist_ok
              THEN create_history_entry(S, S.tasks[task_id], task_id,
                                        "DELETED", user_id, nw)
              ELSE S
    IN  Ret(RemoveTask(S1, task_id), "ok")

\* TaskService.complete_task.  HistoryService and HistoryActionType are
\* imported inside update_task and delete_task only, so they are not bound
\* in complete_task: line 317 raises NameError before anything is flushed,
\* and the handler rolls back and re-raises.
complete_task(S, task_id, user_id) ==
    IF ~Found(S, task_id, user_id) THEN Ret(S, "NotFound")
    ELSE Ret(S, "NameError")

\* ------------------------------- hf_deployment/todo_chatbot TaskService
\* TaskService.create_task; due_date is what DateTimeParser made of
\* due_date_text (NoDate: no text given)
chat_create_task(S, user_id, title, description, client_id, due_date, recurrence_pattern, reminder_minutes, nw) ==
    IF Truthy(recurrence_pattern) /\ due_date = NoDate
    THEN Ret(S, "ValueError")
    ELSE IF Truthy(recurrence_pattern) /\ ~is_valid(recurrence_pattern)
    THEN Ret(S, "ValueError")
    ELSE
    LET task == [NewTask(user_id, title, description) EXCEPT
                    !.client_id = client_id,
                    !.due_date = due_date,
                    !.recurrence_pattern = recurrence_pattern,
                    !.is_recurring = Truthy(recurrence_pattern),
                    !.reminder_minutes = reminder_minutes,
                    !.next_occurrence =
                        IF Truthy(recurrence_pattern)
                        THEN calculate_next_occurrence(due_date,
                                                       recurrence_pattern)
                        ELSE NoDate]
        S1 == InsertTask(S, task)
    IN  IF validate_recurrence_raises(task) THEN Ret(S, "ValueError")
        ELSE IF ~TaskRowOk(task) THEN Ret(S, "IntegrityError")
        ELSE IF task.due_date # NoDate
        THEN Ret([S1 EXCEPT !.jobs =
                    schedule_notification(S1.jobs, S.nextTaskId, task.title,
                                          task.due_date, task.reminder_minutes,
                                          nw)],
                 "ok")
        ELSE Ret(S1, "ok")

\* TaskService.update_task (todo_chatbot): title, description, completed
chat_update_task(S, task_id, user_id, task_data) ==
    IF ~Found(S, task_id, user_id) THEN Ret(S, "NotFound")
    ELSE
    LET task == S.tasks[task_id]
        changed == [ApplyTaskUpdate(task, [task_data EXCEPT !.due_date = NoDate])
                        EXCEPT !.version = task.version + 1]
    IN  IF ~TaskRowOk(changed) THEN Ret(S, "IntegrityError")
        ELSE Ret(WriteTask(S, task_id, task, changed), "ok")

\* TaskService.delete_task (todo_chatbot)
chat_delete_task(S, task_id, user_id) ==
    IF ~Found(S, task_id, user_id) THEN Ret(S, "NotFound")
    ELSE Ret(RemoveTask(S, task_id), "ok")

\* TaskService.create_recurring_instance (todo_chatbot)
chat_create_recurring_instance(S, original_task, nw) ==
    IF ~original_task.is_recurring THEN Ret(S, "ValueError")
    ELSE IF original_task.next_occurrence = NoDate THEN Ret(S, "ValueError")
    ELSE IF ~Truthy(original_task.recurrence_pattern)
            \/ ~is_valid(original_task.recurrence_pattern)
    THEN Ret(S, "ValueError")
    ELSE
    LET future_occurrence ==
            calculate_next_occurrence(original_task.next_occurrence,
                                      original_task.recurrence_pattern)
        new_task == [NewTask(original_task.user_id, original_task.title,
                             original_task.description) EXCEPT
                        !.due_date = original_task.next_occurrence,
                        !.recurrence_pattern = original_task.recurrence_pattern,
                        !.is_recurring = TRUE,
                        !.reminder_minutes = original_task.reminder_minutes,
                        !.next_occurrence = future_occurrence,
                        !.completed = FALSE]
        S1 == InsertTask(S, new_task)
    IN  IF ~TaskRowOk(new_task) THEN Ret(S, "IntegrityError")
        ELSE Ret([S1 EXCEPT !.jobs =
                    schedule_notification(S1.jobs, S.nextTaskId, new_task.title,
                                          new_task.due_date,
                                          new_task.reminder_minutes, nw)],
                 "ok")

\* TaskService.complete_task (todo_chatbot)
chat_complete_task(S, task_id, user_id, nw) ==
    IF ~Found(S, task_id, user_id) THEN Ret(S, "NotFound")
    ELSE
    LET task == S.tasks[task_id]
        S0 == [S EXCEPT !.jobs = cancel_notification(S.jobs, task_id)]
        changed == [task EXCEPT !.completed = TRUE,
                                !.version = task.version + 1]
        S1 == WriteTask(S0, task_id, task, changed)
    IN  IF ~TaskRowOk(changed) THEN Ret(S0, "IntegrityError")
        ELSE IF changed.is_recurring /\ changed.next_occurrence # NoDate
        THEN LET r == chat_create_recurring_instance(S1, changed, nw)
             IN  Ret(r.S, r.result)
        ELSE Ret(S1, "ok")

\* TaskService.update_task_due_date (todo_chatbot); due_date is what
\* DateTimeParser made of due_date_text (NoDate: it could not parse it),
\* recurrence_pattern = NoneS and reminder_minutes = NoInt: not supplied
chat_update_task_due_date(S, task_id, user_id, due_date, recurrence_pattern, reminder_minutes, nw) ==
    IF ~Found(S, task_id, user_id) THEN Ret(S, "NotFound")
    ELSE IF due_date = NoDate THEN Ret(S, "ValueError")
    ELSE
    LET task == S.tasks[task_id]
        S0 == [S EXCEPT !.jobs = cancel_notification(S.jobs, task_id)]
        t1 == [task EXCEPT !.due_date = due_date]
        t2 == IF recurrence_pattern # NoneS
              THEN [t1 EXCEPT
                      !.recurrence_pattern = recurrence_pattern,
                      !.is_recurring = Truthy(recurrence_pattern),
                      !.next_occurrence =
                          IF Truthy(recurrence_pattern)
                             /\ is_valid(recurrence_pattern)
                          THEN calculate_next_occurrence(due_date,
                                                         recurrence_pattern)
                          ELSE @]
              ELSE t1
        t3 == IF reminder_minutes # NoInt
              THEN [t2 EXCEPT !.reminder_minutes = reminder_minutes]
              ELSE t2
        changed == [t3 EXCEPT !.version = task.version + 1]
        S1 == WriteTask(S0, task_id, task, changed)
    IN  IF Truthy(recurrence_pattern) /\ ~is_valid(recurrence_pattern)
        THEN Ret(S0, "ValueError")
        ELSE IF validate_recurrence_raises(changed) THEN Ret(S0, "ValueError")
        ELSE IF ~TaskRowOk(changed) THEN Ret(S0, "IntegrityError")
        ELSE Ret([S1 EXCEPT !.jobs =
                    schedule_notification(S1.jobs, task_id, changed.title,
                                          changed.due_date,
                                          changed.reminder_minutes, nw)],
                 "ok")

\* ------------------------------------------- todo_chatbot/src/mcp/tools
\* tools.complete_task
tool_complete_task(S, user_id, task_id) ==
    IF ~Found(S, task_id, user_id) THEN Ret(S, "TASK_NOT_FOUND")
    ELSE IF S.tasks[task_id].completed THEN Ret(S, "ALREADY_COMPLETED")
    ELSE
    LET task == S.tasks[task_id]
        changed == [task EXCEPT !.completed = TRUE]
    IN  IF ~TaskRowOk(changed) THEN Ret(S, "IntegrityError")
        ELSE Ret(WriteTask(S, task_id, task, changed), "ok")

\* tools.delete_task
tool_delete_task(S, user_id, task_id) ==
    IF ~Found(S, task_id, user_id) THEN Ret(S, "TASK_NOT_FOUND")
    ELSE Ret(RemoveTask(S, task_id), "ok")

\* tools.update_task; title and description without surrounding blanks,
\* within the length limits
tool_update_task(S, user_id, task_id, title, description) ==
    IF ~Found(S, task_id, user_id) THEN Ret(S, "TASK_NOT_FOUND")
    ELSE IF ~Truthy(title) /\ ~Truthy(description) THEN Ret(S, "NO_CHANGES")
    ELSE
    LET task == S.tasks[task_id]
        t1 == IF Truthy(title) THEN [task EXCEPT !.title = title] ELSE task
        changed == IF description # NoneS
                   THEN [t1 EXCEPT !.description = description] ELSE t1
    IN  IF ~TaskRowOk(changed) THEN Ret(S, "IntegrityError")
        ELSE Ret(WriteTask(S, task_id, task, changed), "ok")

\* tools.update_task_due_date; due_date is what dateutil made of
\* due_date_text, NoDate when no text was given (clear the due date)
tool_update_task_due_date(S, user_id, task_id, due_date, reminder_minutes) ==
    IF ~Found(S, task_id, user_id) THEN Ret(S, "TASK_NOT_FOUND")
    ELSE
    LET task == S.tasks[task_id]
        changed == IF due_date # NoDate
                   THEN [task EXCEPT !.due_date = due_date,
                                     !.reminder_minutes = reminder_minutes]
                   ELSE [task EXCEPT !.due_date = NoDate,
                                     !.reminder_minutes = NoInt]
    IN  IF ~TaskRowOk(changed) THEN Ret(S, "UPDATE_FAILED")
        ELSE Ret(WriteTask(S, task_id, task, changed), "ok")

\* ------------------------- todo_chatbot/src/services/task_service_enhanced
\* update_task_enhanced that does not look at what completed was before
update_task_enhanced_unconditional(S, task_id, task_data, user_id, hist_ok, nw) ==
    IF ~Found(S, task_id, user_id) THEN Ret(S, "NotFound")
    ELSE
    LET task == S.tasks[task_id]
        is_being_completed == task_data.completed = "True"
        changed == [ApplyTaskUpdate(task, task_data) EXCEPT
                        !.version = task.version + 1]
        S1 == WriteTask(S, task_id, task, changed)
    IN  IF ~TaskRowOk(changed) THEN Ret(S, "IntegrityError")
        ELSE IF is_being_completed /\ hist_ok
        THEN Ret(create_history_entry(S1, changed, task_id, "COMPLETED",
                                      user_id, nw), "ok")
        ELSE Ret(S1, "ok")

\* update_task_enhanced; hist_ok: create_history_entry does not raise
update_task_enhanced(S, task_id, task_data, user_id, hist_ok, nw) ==
    IF ~Found(S, task_id, user_id) THEN Ret(S, "NotFound")
    ELSE
    LET task == S.tasks[task_id]
        was_incomplete == ~task.completed
        is_being_completed == task_data.completed = "True"
        changed == [ApplyTaskUpdate(task, task_data) EXCEPT
                        !.version = task.version + 1]
        S1 == WriteTask(S, task_id, task, changed)
    IN  IF ~TaskRowOk(changed) THEN Ret(S, "IntegrityError")
        ELSE IF was_incomplete /\ is_being_completed /\ hist_ok
        THEN Ret(create_history_entry(S1, changed, task_id, "COMPLETED",
                                      user_id, nw), "ok")
        ELSE Ret(S1, "ok")

\* --------------------------------------------------- HistoryService
\* restore_insert that leaves the due date of the snapshot out
restore_insert_undated(S, snapshot) ==
    LET restored_task ==
            [NewTask(snapshot.user_id, snapshot.title, snapshot.description)
                EXCEPT !.completed = snapshot.completed,
                       !.recurrence_pattern = snapshot.recurrence_pattern,
                       !.is_recurring = Truthy(snapshot.recurrence_pattern),
                       !.reminder_minutes = 15,
                       !.next_occurrence = NoDate]
    IN  IF ~TaskRowOk(restored_task) THEN Ret(S, "IntegrityError")
        ELSE Ret(InsertTask(S, restored_task), "ok")

\* restore_deleted_task, lines 168-183: the task built from the snapshot the
\* session loaded, added and committed
restore_insert(S, snapshot) ==
    LET restored_task ==
            [NewTask(snapshot.user_id, snapshot.title, snapshot.description)
                EXCEPT !.completed = snapshot.completed,
                       !.due_date = snapshot.due_date,
                       !.recurrence_pattern = snapshot.recurrence_pattern,
                       !.is_recurring = Truthy(snapshot.recurrence_pattern),
                       !.reminder_minutes = 15,
                       !.next_occurrence = NoDate]
    IN  IF ~TaskRowOk(restored_task) THEN Ret(S, "IntegrityError")
        ELSE Ret(InsertTask(S, restored_task), "ok")

\* restore_mark without the assignment of line 186
restore_mark_unmarked(S, history_id) ==
    IF history_id \notin DOMAIN S.history THEN Ret(S, "StaleDataError")
    ELSE Ret(S, "ok")

\* restore_deleted_task, lines 185-188: can_restore = False, committed
restore_mark(S, history_id) ==
    IF history_id \notin DOMAIN S.history THEN Ret(S, "StaleDataError")
    ELSE Ret([S EXCEPT !.history[history_id].can_restore = FALSE], "ok")

\* restore_check without the can_restore test of line 162
restore_check_any(S, history_id, user_id) ==
    IF history_id \notin DOMAIN S.history
       \/ S.history[history_id].user_id # user_id
    THEN "NotFound"
    ELSE "go"

\* restore_deleted_task, lines 152-166: what the SELECT and the can_restore
\* test decide
restore_check(S, history_id, user_id) ==
    IF history_id \notin DOMAIN S.history
       \/ S.history[history_id].user_id # user_id
    THEN "NotFound"
    ELSE IF ~S.history[history_id].can_restore THEN "ValueError"
    ELSE "go"

\* HistoryService.restore_deleted_task run without interruption
restore_deleted_task(S, history_id, user_id) ==
    IF restore_check(S, history_id, user_id) # "go"
    THEN Ret(S, restore_check(S, history_id, user_id))
    ELSE
    LET r1 == restore_insert(S, S.history[history_id])
    IN  IF r1.result # "ok" THEN r1 ELSE restore_mark(r1.S, history_id)

\* ------------------------------------------------------------- requests
Patches ==
    [title : {NoneS}, description : {NoneS},
     completed : {"None", "True", "False"}, due_date : {NoDate}]

CreateTask ==
    \E u \in Creators, ti \in InputTitles, de \in InputDescriptions,
       c \in InputClientIds, d \in {NoDate} \cup InputDues :
        LET r == create_task(Store, u, ti, de, c, d)
        IN  Finish(r.S)

ChatCreateTask ==
    \E u \in Creators, ti \in InputTitles, de \in InputDescriptions,
       c \in InputClientIds, d \in {NoDate} \cup InputDues,
       pat \in {NoneS} \cup InputPatterns, rm \in InputReminders :
        LET r == chat_create_task(Store, u, ti, de, c, d, pat, rm, now)
        IN  Finish(r.S)

UpdateTask ==
    \E u \in Users, id \in TaskIds, pa \in Patches, ok \in BOOLEAN :
        LET r == update_task(Store, id, u, pa, ok, now)
        IN  Finish(r.S)

DeleteTask ==
    \E u \in Users, id \in TaskIds, ok \in BOOLEAN :
        LET r == delete_task(Store, id, u, ok, now)
        IN  Finish(r.S)

CompleteTask ==
    \E u \in Users, id \in TaskIds :
        LET r == complete_task(Store, id, u)
        IN  Finish(r.S)

ChatUpdateTask ==
    \E u \in Users, id \in TaskIds, pa \in Patches :
        LET r == chat_update_task(Store, id, u, pa)
        IN  Finish(r.S)

ChatDeleteTask ==
    \E u \in Users, id \in TaskIds :
        LET r == chat_delete_task(Store, id, u)
        IN  Finish(r.S)

ChatCompleteTask ==
    \E u \in Users, id \in TaskIds :
        LET r == chat_complete_task(Store, id, u, now)
        IN  Finish(r.S)

ChatUpdateTaskDueDate ==
    \E u \in Users, id \in TaskIds, d \in {NoDate} \cup InputDues,
       pat \in {NoneS, ""} \cup InputPatterns, rm \in {NoInt} \cup InputReminders :
        LET r == chat_update_task_due_date(Store, id, u, d, pat, rm, now)
        IN  Finish(r.S)

ToolCompleteTask ==
    \E u \in Users, id \in TaskIds :
        LET r == tool_complete_task(Store, u, id)
        IN  Finish(r.S)

ToolDeleteTask ==
    \E u \in Users, id \in TaskIds :
        LET r == tool_delete_task(Store, u, id)
        IN  Finish(r.S)

ToolUpdateTask ==
    \E u \in Users, id \in TaskIds, ti \in {NoneS} \cup PatchTitles :
        LET r == tool_update_task(Store, u, id, ti, NoneS)
        IN  Finish(r.S)

ToolUpdateTaskDueDate ==
    \E u \in Users, id \in TaskIds, d \in {NoDate} \cup InputDues,
       rm \in InputReminders :
        LET r == tool_update_task_due_date(Store, u, id, d, rm)
        IN  Finish(r.S)

UpdateTaskEnhanced ==
    \E u \in Users, id \in TaskIds, pa \in Patches, ok \in BOOLEAN :
        LET r == update_task_enhanced(Store, id, pa, u, ok, now)
        IN  Finish(r.S)

RestoreDeletedTask ==
    \E u \in Users, h \in HistIds :
        LET r == restore_deleted_task(Store, h, u)
        IN  Finish(r.S)

Next ==
    \/ CreateTask
    \/ ChatCreateTask
    \/ UpdateTask
    \/ DeleteTask
    \/ CompleteTask
    \/ ChatUpdateTask
    \/ ChatDeleteTask
    \/ ChatCompleteTask
    \/ ChatUpdateTaskDueDate
    \/ ToolCompleteTask
    \/ ToolDeleteTask
    \/ ToolUpdateTask
    \/ ToolUpdateTaskDueDate
    \/ UpdateTaskEnhanced
    \/ RestoreDeletedTask

Spec == Init /\ [][Next]_vars

\* ------------------------------------------- requests that interleave
\* A request runs in its own session.  Between the statement that loads a
\* row and the commit that writes it back, other requests may commit.

\* a step of request p leaves the store as S and its session as e
Step(p, S, e) ==
    /\ served < MaxSteps
    /\ served' = served + 1
    /\ tasks' = S.tasks
    /\ nextTaskId' = S.nextTaskId
    /\ history' = S.history
    /\ nextHistId' = S.nextHistId
    /\ jobs' = S.jobs
    /\ sess' = [sess EXCEPT ![p] = e]
    /\ UNCHANGED <<scheduler_service, now, last>>

Returned(op, id, read_version, new_id, result) ==
    [op |-> op, pc |-> "done", id |-> id, read_version |-> read_version,
     new_id |-> new_id, result |-> result]

Free(p) == sess[p].pc = "done"

\* restore_deleted_task, lines 152-166
RestoreBegin(p) ==
    /\ Free(p)
    /\ \E u \in Users, h \in HistIds :
        LET c == restore_check(Store, h, u)
        IN  IF c = "go"
            THEN Step(p, Store, [op |-> "restore", pc |-> "insert", id |-> h,
                                 snapshot |-> history[h]])
            ELSE Step(p, Store, Returned("restore", h, 0, 0, c))

\* restore_deleted_task, lines 168-183
RestoreInsert(p) ==
    /\ sess[p].op = "restore" /\ sess[p].pc = "insert"
    /\ LET r == restore_insert(Store, sess[p].snapshot)
       IN  IF r.result = "ok"
           THEN Step(p, r.S, [op |-> "restore", pc |-> "mark",
                              id |-> sess[p].id, new_id |-> nextTaskId])
           ELSE Step(p, r.S, Returned("restore", sess[p].id, 0, 0, r.result))

\* restore_deleted_task, lines 185-190
RestoreMark(p) ==
    /\ sess[p].op = "restore" /\ sess[p].pc = "mark"
    /\ LET r == restore_mark(Store, sess[p].id)
       IN  Step(p, r.S, Returned("restore", sess[p].id, 0, sess[p].new_id,
                                 r.result))

\* TaskService.update_task, lines 100-102
UpdateBegin(p) ==
    /\ Free(p)
    /\ \E u \in Users, id \in TaskIds, pa \in Patches :
        IF Found(Store, id, u)
        THEN Step(p, Store, [op |-> "update", pc |-> "commit", id |-> id,
                             user |-> u, task |-> tasks[id], task_data |-> pa])
        ELSE Step(p, Store, Returned("update", id, 0, 0, "NotFound"))

\* TaskService.update_task, lines 104-167
UpdateCommit(p) ==
    /\ sess[p].op = "update" /\ sess[p].pc = "commit"
    /\ \E ok \in BOOLEAN :
        LET r == update_task_apply(Store, sess[p].id, sess[p].user,
                                   sess[p].task, sess[p].task_data, ok, now)
        IN  Step(p, r.S, Returned("update", sess[p].id, sess[p].task.version,
                                  0, r.result))

NextConc ==
    \/ CreateTask
    \/ DeleteTask
    \/ \E p \in Procs : RestoreBegin(p)
    \/ \E p \in Procs : RestoreInsert(p)
    \/ \E p \in Procs : RestoreMark(p)
    \/ \E p \in Procs : UpdateBegin(p)
    \/ \E p \in Procs : UpdateCommit(p)

SpecConc == Init /\ [][NextConc]_vars

\* ------------------------------------------- the scheduler and the clock
\* instants the clock reaches
Instants == {StartTime, DT(2026, 1, 1, 0, 10), DT(2026, 1, 31, 10, 0)}

\* due dates handed to the scheduler: past, 20 minutes ahead, a month ahead
DueGone == DT(2025, 12, 25, 10, 0)
DueNear == DT(2026, 1, 1, 0, 20)
SchedDues == {DueGone, DueNear, DueSoon}
SchedReminders == {15, 30}
SchedTasks == {1, 2}

\* a call on the scheduler leaves the job store as js and is logged as rec
Called(js, rec) ==
    /\ served < MaxCalls
    /\ served' = served + 1
    /\ jobs' = js
    /\ last' = rec
    /\ UNCHANGED <<scheduler_service, tasks, nextTaskId, history, nextHistId, now, sess>>

ScheduleNotification ==
    \E t \in SchedTasks, d \in SchedDues, rm \in SchedReminders :
        Called(schedule_notification(jobs, t, "a", d, rm, now),
               [op |-> "schedule_notification", id |-> t, due_date |-> d,
                reminder_minutes |-> rm])

CancelNotification ==
    \E t \in SchedTasks :
        Called(cancel_notification(jobs, t),
               [op |-> "cancel_notification", id |-> t])

\* time passes
Tick ==
    /\ \E t \in Instants : t > now /\ now' = t
    /\ UNCHANGED <<scheduler_service, tasks, nextTaskId, history, nextHistId, jobs, sess, served,
                   last>>

\* APScheduler runs a job whose DateTrigger run_date has come and drops it
RunJob ==
    /\ \E j \in jobs : j.run_at <= now /\ jobs' = jobs \ {j}
    /\ UNCHANGED <<scheduler_service, tasks, nextTaskId, history, nextHistId, now, sess, served,
                   last>>

NextSched ==
    \/ ScheduleNotification
    \/ CancelNotification
    \/ Tick
    \/ RunJob

SpecSched == Init /\ [][NextSched]_vars

\* --------------------------------------------- requests with their inputs
\* checked, their side effects failing, and their outcome logged

\* Field(max_length=200, min_length=1) and Field(max_length=1000)
MaxTitle == 200
MaxDescription == 1000

\* a title and a description one character over their limits
Chars50 == "tttttttttttttttttttttttttttttttttttttttttttttttttt"
Chars200 == Chars50 \o Chars50 \o Chars50 \o Chars50
LongTitle == Chars200 \o "t"
LongDescription ==
    Chars200 \o Chars200 \o Chars200 \o Chars200 \o Chars200 \o "t"

\* TaskCreate that accepts every title and description
TaskCreateRaises_never(title, description) == FALSE

\* TaskCreate(title=..., description=...) raises ValidationError
TaskCreateRaises(title, description) ==
    \/ Len(title) < 1
    \/ Len(title) > MaxTitle
    \/ Len(description) > MaxDescription

\* what a call on the scheduler, or the commit of a recurring instance, does
\* during a request: nothing wrong, get_scheduler raising RuntimeError,
\* add_job raising another error, the commit raising
Faults == {"none", "schedule:RuntimeError", "schedule:OperationalError",
           "create:OperationalError"}

\* POST /tasks: FastAPI builds TaskCreate from the body, then create_task
api_create_task(S, user_id, title, description, client_id, due_date) ==
    IF TaskCreateRaises(title, description) THEN Ret(S, "422")
    ELSE create_task(S, user_id, title, description, client_id, due_date)

\* tools.add_task; title and description without surrounding blanks
tool_add_task(S, user_id, title, description) ==
    IF Len(title) < 1 \/ Len(title) > MaxTitle THEN Ret(S, "INVALID_TITLE")
    ELSE IF Len(description) > MaxDescription
    THEN Ret(S, "INVALID_DESCRIPTION")
    ELSE Ret(InsertTask(S, NewTask(user_id, title, description)), "ok")

\* lines 87-100 of TaskService.create_task (todo_chatbot) when the scheduler
\* call fails as `fault` says: r is what the function does when it does not
\* fail, S the store it started from
create_task_scheduling(S, due_date, fault, r) ==
    IF r.result # "ok" \/ due_date = NoDate THEN r
    ELSE IF fault = "schedule:RuntimeError"
    THEN Ret([r.S EXCEPT !.jobs = S.jobs], "ok")
    ELSE IF fault = "schedule:OperationalError"
    THEN Ret([r.S EXCEPT !.jobs = S.jobs], "OperationalError")
    ELSE r

\* TaskService.create_task (todo_chatbot) with the scheduler call failing
chat_create_task_fault(S, user_id, title, description, client_id, due_date, recurrence_pattern, reminder_minutes, nw, fault) ==
    create_task_scheduling(S, due_date, fault,
        chat_create_task(S, user_id, title, description, client_id, due_date,
                         recurrence_pattern, reminder_minutes, nw))

\* tools.add_task_with_due_date, lines 122-147: its answer to what
\* TaskService.create_task returned or raised
add_task_response(r) ==
    IF r.result = "ok" THEN r
    ELSE IF r.result = "ValueError" THEN Ret(r.S, "VALIDATION_ERROR")
    ELSE Ret(r.S, "CREATION_FAILED")

\* tools.add_task_with_due_date; title and description without surrounding
\* blanks
tool_add_task_with_due_date(S, user_id, title, description, due_date, recurrence_pattern, reminder_minutes, nw, fault) ==
    IF Len(title) < 1 \/ Len(title) > MaxTitle THEN Ret(S, "INVALID_TITLE")
    ELSE IF Len(description) > MaxDescription
    THEN Ret(S, "INVALID_DESCRIPTION")
    ELSE IF TaskCreateRaises(title, description) THEN Ret(S, "ValidationError")
    ELSE add_task_response(
            chat_create_task_fault(S, user_id, title, description, NoneS,
                                   due_date, recurrence_pattern,
                                   reminder_minutes, nw, fault))

\* lines 345-347 of TaskService.complete_task (todo_chatbot) when
\* create_recurring_instance fails as `fault` says, at its commit (line 395)
\* or at its scheduler call (lines 400-409): r is what complete_task does
\* when nothing fails, S the store it started from
complete_task_instance(S, task_id, user_id, fault, r) ==
    IF ~(/\ Found(S, task_id, user_id)
         /\ S.tasks[task_id].is_recurring
         /\ S.tasks[task_id].next_occurrence # NoDate
         /\ r.result = "ok")
       \/ fault = "none"
    THEN r
    ELSE IF fault = "schedule:RuntimeError"
    THEN Ret([r.S EXCEPT !.jobs = cancel_notification(S.jobs, task_id)], "ok")
    ELSE IF fault = "schedule:OperationalError"
    THEN Ret([r.S EXCEPT !.jobs = cancel_notification(S.jobs, task_id)],
             "OperationalError")
    ELSE Ret([r.S EXCEPT
                 !.jobs = cancel_notification(S.jobs, task_id),
                 !.tasks = [i \in DOMAIN S.tasks |-> r.S.tasks[i]],
                 !.nextTaskId = S.nextTaskId],
             "OperationalError")

\* TaskService.complete_task (todo_chatbot) with create_recurring_instance
\* failing
chat_complete_task_fault(S, task_id, user_id, nw, fault) ==
    complete_task_instance(S, task_id, user_id, fault,
                           chat_complete_task(S, task_id, user_id, nw))

\* the request leaves the store as S and is logged as rec
Logged(S, rec) ==
    /\ served < MaxReqs
    /\ served' = served + 1
    /\ tasks' = S.tasks
    /\ nextTaskId' = S.nextTaskId
    /\ history' = S.history
    /\ nextHistId' = S.nextHistId
    /\ jobs' = S.jobs
    /\ last' = rec
    /\ UNCHANGED <<scheduler_service, now, sess>>

\* what callers send
ReqTitles == {"a", "", LongTitle}
ReqDescriptions == {"d", LongDescription}
ReqPatterns == {NoneS, "weekly", "bi-weekly", "hourly"}
DueLater == DT(2026, 2, 15, 9, 0)
ReqReminders == {15, 30}
DuePatches ==
    [title : {NoneS}, description : {NoneS}, completed : {"None", "True"},
     due_date : {NoDate, DueLater}]

\* a create request and what it came to
OnCreate(op, u, ti, de, d, pat, rm, f, r) ==
    Logged(r.S, [op |-> op, user |-> u, id |-> nextTaskId, title |-> ti,
                 description |-> de, due_date |-> d,
                 recurrence_pattern |-> pat, reminder_minutes |-> rm,
                 fault |-> f, result |-> r.result])

PostTask ==
    \E u \in Creators, ti \in ReqTitles, de \in ReqDescriptions :
        OnCreate("api_create_task", u, ti, de, NoDate, NoneS, 15, "none",
                 api_create_task(Store, u, ti, de, NoneS, NoDate))

AddTask ==
    \E u \in Creators, ti \in ReqTitles, de \in ReqDescriptions :
        OnCreate("add_task", u, ti, de, NoDate, NoneS, 15, "none",
                 tool_add_task(Store, u, ti, de))

\* the calls of add_task_with_due_date: every due date, pattern and fault
\* with a good title and description, and one call for each bad text
CreateRequests ==
    {q \in [title : ReqTitles, description : ReqDescriptions,
            due_date : {NoDate, DueSoon}, recurrence_pattern : ReqPatterns,
            fault : Faults \ {"create:OperationalError"}] :
        /\ (q.due_date = NoDate => q.fault = "none")
        /\ (q.title # "a" \/ q.description # "d")
              => /\ q.title = "a" \/ q.description = "d"
                 /\ q.due_date = DueSoon
                 /\ q.recurrence_pattern = "weekly"
                 /\ q.fault = "none"}

AddTaskWithDueDate ==
    \E u \in Creators, q \in CreateRequests :
        OnCreate("add_task_with_due_date", u, q.title, q.description,
                 q.due_date, q.recurrence_pattern, 30, q.fault,
                 tool_add_task_with_due_date(Store, u, q.title, q.description,
                                             q.due_date, q.recurrence_pattern,
                                             30, now, q.fault))

\* a request on task or history entry id by user u
OnTask(op, u, id, r) ==
    Logged(r.S, [op |-> op, user |-> u, id |-> id, fault |-> "none",
                 result |-> r.result])

PutTask ==
    \E u \in Users, id \in TaskIds, pa \in DuePatches, ok \in BOOLEAN :
        OnTask("update_task", u, id, update_task(Store, id, u, pa, ok, now))

RemoveTaskRequest ==
    \E u \in Users, id \in TaskIds, ok \in BOOLEAN :
        OnTask("delete_task", u, id, delete_task(Store, id, u, ok, now))

CompleteTaskRequest ==
    \E u \in Users, id \in TaskIds :
        OnTask("complete_task", u, id, complete_task(Store, id, u))

\* a request on task id by user u during which `fault` happens
OnTaskFault(op, u, id, f, r) ==
    Logged(r.S, [op |-> op, user |-> u, id |-> id, fault |-> f,
                 result |-> r.result])

ChatComplete ==
    \E u \in Users, id \in TaskIds, f \in Faults :
        OnTaskFault("chat_complete_task", u, id, f,
                    chat_complete_task_fault(Store, id, u, now, f))

ChatDelete ==
    \E u \in Users, id \in TaskIds :
        OnTask("chat_delete_task", u, id, chat_delete_task(Store, id, u))

ChatDueDate ==
    \E u \in Users, id \in TaskIds, d \in {DueLater}, rm \in {NoInt} \cup ReqReminders :
        OnTask("chat_update_task_due_date", u, id,
               chat_update_task_due_date(Store, id, u, d, NoneS, rm, now))

ToolComplete ==
    \E u \in Users, id \in TaskIds :
        OnTask("tool_complete_task", u, id, tool_complete_task(Store, u, id))

ToolDelete ==
    \E u \in Users, id \in TaskIds :
        OnTask("tool_delete_task", u, id, tool_delete_task(Store, u, id))

ToolDueDate ==
    \E u \in Users, id \in TaskIds, d \in {NoDate, DueLater}, rm \in ReqReminders :
        OnTask("tool_update_task_due_date", u, id,
               tool_update_task_due_date(Store, u, id, d, rm))

Restore ==
    \E u \in Users, h \in HistIds :
        OnTask("restore_deleted_task", u, h, restore_deleted_task(Store, h, u))

NextReq ==
    \/ PostTask
    \/ AddTask
    \/ AddTaskWithDueDate
    \/ PutTask
    \/ RemoveTaskRequest
    \/ CompleteTaskRequest
    \/ ChatComplete
    \/ ChatDelete
    \/ ChatDueDate
    \/ ToolComplete
    \/ ToolDelete
    \/ ToolDueDate
    \/ Restore

SpecReq == Init /\ [][NextReq]_vars

\* ------------------------------------------------ history retention
\* HistoryService.cleanup_old_history that also deletes an entry whose
\* retention_until is the cutoff
cleanup_old_history_inclusive(S, cutoff_date) ==
    LET old_entries == {h \in DOMAIN S.history :
                            S.history[h].retention_until <= cutoff_date}
    IN  Ret([S EXCEPT !.history = [h \in DOMAIN S.history \ old_entries |->
                                      S.history[h]]],
            Cardinality(old_entries))

\* HistoryService.cleanup_old_history
cleanup_old_history(S, cutoff_date) ==
    LET old_entries == {h \in DOMAIN S.history :
                            S.history[h].retention_until < cutoff_date}
    IN  Ret([S EXCEPT !.history = [h \in DOMAIN S.history \ old_entries |->
                                      S.history[h]]],
            Cardinality(old_entries))

\* cleanup_old_history_job that goes by the day of the action, not by the
\* end of the retention
cleanup_old_history_job_by_action_date(S, nw) ==
    LET old_entries == {h \in DOMAIN S.history :
                            S.history[h].action_date < nw}
    IN  Ret([S EXCEPT !.history = [h \in DOMAIN S.history \ old_entries |->
                                      S.history[h]]],
            "None")

\* cleanup_old_history_job, the daily job of the scheduler: the same with
\* the clock as cutoff; it returns nothing
cleanup_old_history_job(S, nw) ==
    LET old_entries == {h \in DOMAIN S.history :
                            S.history[h].retention_until < nw}
    IN  Ret([S EXCEPT !.history = [h \in DOMAIN S.history \ old_entries |->
                                      S.history[h]]],
            "None")

\* the instants of the clock, and the day each comes out of retention
RetentionInstants == {AddYears(t, RetentionYears) : t \in Instants}
PurgeInstants == Instants \cup RetentionInstants

\* a call of this part leaves the store as S and is logged as rec
Purged(S, rec) ==
    /\ served < MaxPurges
    /\ served' = served + 1
    /\ tasks' = S.tasks
    /\ nextTaskId' = S.nextTaskId
    /\ history' = S.history
    /\ nextHistId' = S.nextHistId
    /\ jobs' = S.jobs
    /\ last' = rec
    /\ UNCHANGED <<scheduler_service, now, sess>>

\* a call on the store and what it came to
OnStore(op, cutoff_date, r) ==
    Purged(r.S, [op |-> op, cutoff_date |-> cutoff_date, result |-> r.result])

PurgeCreate ==
    \E u \in Creators :
        OnStore("create_task", NoDate,
                create_task(Store, u, "a", "d", NoneS, NoDate))

PurgeDelete ==
    \E u \in Users, id \in TaskIds, ok \in BOOLEAN :
        OnStore("delete_task", NoDate, delete_task(Store, id, u, ok, now))

CleanupOldHistory ==
    \E c \in RetentionInstants :
        OnStore("cleanup_old_history", c, cleanup_old_history(Store, c))

CleanupOldHistoryJob ==
    OnStore("cleanup_old_history_job", now,
            cleanup_old_history_job(Store, now))

PurgeTick ==
    /\ \E t \in PurgeInstants : t > now /\ now' = t
    /\ UNCHANGED <<scheduler_service, tasks, nextTaskId, history, nextHistId, jobs, sess, served,
                   last>>

NextPurge ==
    \/ PurgeCreate
    \/ PurgeDelete
    \/ CleanupOldHistory
    \/ CleanupOldHistoryJob
    \/ PurgeTick

SpecPurge == Init /\ [][NextPurge]_vars

\* ------------------------------------- functions applied to drawn inputs
\* nothing is stored, no request has been served; `last` holds the
\* arguments, and then the call with what it came to
Blank ==
    /\ tasks = <<>>
    /\ nextTaskId = 1
    /\ history = <<>>
    /\ nextHistId = 1
    /\ jobs = {}
    /\ now = StartTime
    /\ sess = [p \in Procs |-> Idle]
    /\ served = 0
    /\ scheduler_service = "started"

\* the call is made once, on the arguments drawn
Applied(rec) ==
    /\ last.op = "args"
    /\ last' = rec
    /\ UNCHANGED <<scheduler_service, tasks, nextTaskId, history, nextHistId, jobs, now, sess,
                   served>>

\* class HistoryActionType
ActionTypes ==
    {"CREATED", "UPDATED", "COMPLETED", "DELETED", "ARCHIVED", "RESTORED"}

\* keyword arguments of TaskHistory(...) for a task of user 1
EntryArgs ==
    [op : {"args"}, action_type : ActionTypes, can_restore : BOOLEAN,
     completed : BOOLEAN, action_date : Instants]

EntryData(a) ==
    [user_id |-> 1, original_task_id |-> 1, title |-> "a",
     description |-> "d", completed |-> a.completed, due_date |-> NoDate,
     recurrence_pattern |-> NoneS, action_type |-> a.action_type,
     action_date |-> a.action_date, action_by |-> 1,
     can_restore |-> a.can_restore, retention_until |-> NoDate]

\* TaskHistory(**data): raised, or the entry made
Construct ==
    Applied([op |-> "TaskHistory", args |-> last,
             raised |-> TaskHistoryRaises(EntryData(last)),
             entry |-> TaskHistoryInit(EntryData(last))])

\* TaskHistory.from_task(task, action_type, action_by)
FromTask ==
    Applied([op |-> "from_task", args |-> last, raised |-> FALSE,
             entry |-> from_task([NewTask(1, "a", "d") EXCEPT
                                     !.completed = last.completed],
                                 1, last.action_type, 1, last.action_date)])

InitEntry == Blank /\ last \in EntryArgs

NextEntry ==
    \/ Construct
    \/ FromTask

SpecEntry == InitEntry /\ [][NextEntry]_vars

\* ------------------------------------------------------- history queries
\* str.lower on the letters titles are made of
LowerChar(c) == CASE c = "A" -> "a" [] c = "B" -> "b" [] OTHER -> c

RECURSIVE Lower(_)
Lower(s) ==
    IF s = "" THEN ""
    ELSE LowerChar(SubSeq(s, 1, 1)) \o Lower(SubSeq(s, 2, Len(s)))

\* TaskHistory.title.ilike(f"%{search}%"), for a search without % and _
ilike(title, search) ==
    \E i \in 1..(Len(title) - Len(search) + 1) :
        Lower(SubSeq(title, i, i + Len(search) - 1)) = Lower(search)

\* get_history, lines 70-85: the rows the statement selects
history_matching(S, user_id, query) ==
    {h \in DOMAIN S.history :
        /\ S.history[h].user_id = user_id
        /\ Truthy(query.action_type)
              => S.history[h].action_type = query.action_type
        /\ query.start_date # NoDate
              => S.history[h].action_date >= query.start_date
        /\ query.end_date # NoDate
              => S.history[h].action_date <= query.end_date
        /\ Truthy(query.search) => ilike(S.history[h].title, query.search)}

\* the orders in which the database may return rows for
\* ORDER BY action_date DESC: rows of one action_date come in any order
history_orders(S, rows) ==
    {o \in [1..Cardinality(rows) -> rows] :
        /\ \A i, j \in DOMAIN o : i # j => o[i] # o[j]
        /\ \A i, j \in DOMAIN o :
              i < j => S.history[o[i]].action_date
                          >= S.history[o[j]].action_date}

\* OFFSET offset LIMIT page_size of the rows in order o
page_of(o, page, page_size) ==
    LET offset == (page - 1) * page_size
    IN  SubSeq(o, offset + 1, Min(offset + page_size, Len(o)))

\* HistoryService.get_history, the database returning the rows in order o
get_history(S, user_id, query, o) ==
    Ret(S, [items |-> page_of(o, query.page, query.page_size),
            total |-> Cardinality(history_matching(S, user_id, query))])

\* what callers ask for: one filter at a time, pages of one or two entries
QueryTitles == {"a", "Ab"}
Queries ==
    {q \in [action_type : {NoneS, "DELETED", "COMPLETED"},
            start_date : {NoDate, DT(2026, 1, 1, 0, 10)},
            end_date : {NoDate, StartTime},
            search : {NoneS, "B"},
            page : 1..2, page_size : 1..2] :
        (IF Truthy(q.action_type) THEN 1 ELSE 0)
           + (IF q.start_date # NoDate THEN 1 ELSE 0)
           + (IF q.end_date # NoDate THEN 1 ELSE 0)
           + (IF Truthy(q.search) THEN 1 ELSE 0) <= 1}

\* a call of this part leaves the store as S and is logged as rec
Queried(S, rec) ==
    /\ served < MaxQueries
    /\ served' = served + 1
    /\ tasks' = S.tasks
    /\ nextTaskId' = S.nextTaskId
    /\ history' = S.history
    /\ nextHistId' = S.nextHistId
    /\ jobs' = S.jobs
    /\ last' = rec
    /\ UNCHANGED <<scheduler_service, now, sess>>

QueryCreate ==
    \E u \in Users, ti \in QueryTitles :
        Queried(create_task(Store, u, ti, "d", NoneS, NoDate).S,
                [op |-> "create_task"])

QueryDelete ==
    \E u \in Users, id \in DOMAIN tasks :
        Queried(delete_task(Store, id, u, TRUE, now).S, [op |-> "delete_task"])

QueryComplete ==
    \E u \in Users, id \in DOMAIN tasks :
        Queried(update_task(Store, id, u,
                           [title |-> NoneS, description |-> NoneS,
                            completed |-> "True", due_date |-> NoDate],
                           TRUE, now).S,
               [op |-> "update_task"])

GetHistory ==
    \E u \in Users, q \in Queries :
        \E o \in history_orders(Store, history_matching(Store, u, q)) :
            Queried(Store, [op |-> "get_history", user |-> u, query |-> q,
                           result |-> get_history(Store, u, q, o).result])

NextQuery ==
    \/ QueryCreate
    \/ QueryDelete
    \/ QueryComplete
    \/ GetHistory
    \/ Tick

SpecQuery == Init /\ [][NextQuery]_vars

\* ------------------------------------------------- RecurrenceCalculator
\* a datetime: its wall-clock minutes and its tzinfo (NoneS: naive)
At(wall, tzinfo) == [wall |-> wall, tzinfo |-> tzinfo]

\* None given for a datetime
NoneDate == At(NoDate, NoneS)

\* tzinfo.utcoffset, in minutes, of the fixed-offset zones used
utcoffset(tzinfo) == IF tzinfo = "+05:00" THEN 300 ELSE 0

\* what comparing two datetimes compares; naive with aware raises TypeError
Instant(d) == d.wall - utcoffset(d.tzinfo)
Comparable(a, b) == (a.tzinfo = NoneS) <=> (b.tzinfo = NoneS)

\* what a call comes to: the message of the exception raised, or the value
Raise(message) == [raised |-> message, value |-> <<>>]
Return(value) == [raised |-> "none", value |-> value]

\* calculate_next_occurrence without the tests of lines 99-103
calculate_next_occurrence_any_date(current_due, pattern) ==
    IF ~Truthy(pattern) THEN Raise("Recurrence pattern cannot be empty")
    ELSE IF ~is_valid(pattern) THEN Raise("Unknown recurrence pattern")
    ELSE Return(At(calculate_next_occurrence(current_due.wall, pattern),
                   current_due.tzinfo))

\* RecurrenceCalculator.calculate_next_occurrence, lines 89-130
calculate_next_occurrence_checked(current_due, pattern) ==
    IF ~Truthy(pattern) THEN Raise("Recurrence pattern cannot be empty")
    ELSE IF ~is_valid(pattern) THEN Raise("Unknown recurrence pattern")
    ELSE IF current_due = NoneDate THEN Raise("current_due cannot be None")
    ELSE IF current_due.tzinfo = NoneS
    THEN Raise("current_due must be timezone-aware")
    ELSE Return(At(calculate_next_occurrence(current_due.wall, pattern),
                   current_due.tzinfo))

\* the dates and patterns the functions are called with
CalcWalls ==
    {DT(2026, 1, 31, 10, 0), DT(2024, 1, 31, 10, 0), DT(2024, 2, 29, 10, 0),
     DT(2025, 2, 28, 0, 0), DT(2026, 2, 1, 10, 0), DT(2026, 12, 31, 23, 59)}
CalcZones == {"UTC", "+05:00"}
AwareDates == {At(w, z) : w \in CalcWalls, z \in CalcZones}
CalcDates == AwareDates \cup {At(DT(2026, 2, 1, 10, 0), NoneS), NoneDate}
CalcPatterns == AllPatterns \cup {"hourly", "", NoneS}

\* calculate_multiple_occurrences, lines 172-183: n more rounds of the loop
RECURSIVE multiple_occurrences_loop(_, _, _, _)
multiple_occurrences_loop(current, pattern, n, occurrences) ==
    IF n = 0 THEN Return(occurrences)
    ELSE LET next_occurrence ==
                 calculate_next_occurrence_checked(current, pattern)
         IN  IF next_occurrence.raised # "none"
             THEN Raise(next_occurrence.raised)
             ELSE multiple_occurrences_loop(
                      next_occurrence.value, pattern, n - 1,
                      Append(occurrences, next_occurrence.value))

\* calculate_multiple_occurrences that computes every occurrence from
\* start_date
calculate_multiple_occurrences_unchained(start_date, pattern, count) ==
    IF count < 0 THEN Raise("count must be non-negative")
    ELSE IF count = 0 THEN Return(<<>>)
    ELSE LET next_occurrence ==
                 calculate_next_occurrence_checked(start_date, pattern)
         IN  IF next_occurrence.raised # "none"
             THEN Raise(next_occurrence.raised)
             ELSE Return([i \in 1..count |-> next_occurrence.value])

\* RecurrenceCalculator.calculate_multiple_occurrences
calculate_multiple_occurrences(start_date, pattern, count) ==
    IF count < 0 THEN Raise("count must be non-negative")
    ELSE IF count = 0 THEN Return(<<>>)
    ELSE multiple_occurrences_loop(start_date, pattern, count, <<>>)

CalcCounts == -1..3

MultipleOccurrencesArgs ==
    [op : {"args"}, fn : {"calculate_multiple_occurrences"},
     start_date : CalcDates, pattern : CalcPatterns, count : CalcCounts]

MultipleOccurrences ==
    /\ last.op = "args"
    /\ last.fn = "calculate_multiple_occurrences"
    /\ Applied([op |-> "calculate_multiple_occurrences", args |-> last,
                result |-> calculate_multiple_occurrences(
                               last.start_date, last.pattern, last.count)])

\* calculate_occurrences_until, lines 247-252: the call st comes to its
\* loop, or ends before it
until_begin(st) ==
    LET a == st.args
    IN  IF a.start_date = NoneDate \/ a.end_date = NoneDate
           \/ ~Comparable(a.end_date, a.start_date)
        THEN [st EXCEPT !.pc = "raised", !.raised = "TypeError"]
        ELSE IF Instant(a.end_date) <= Instant(a.start_date)
        THEN [st EXCEPT !.pc = "returned"]
        ELSE [st EXCEPT !.pc = "loop", !.current = a.start_date]

\* the round of the loop that does not count
until_iteration_uncounted(st) ==
    LET a == st.args
        next_occurrence == calculate_next_occurrence_checked(st.current,
                                                             a.pattern)
    IN  IF next_occurrence.raised # "none"
        THEN [st EXCEPT !.pc = "raised", !.raised = next_occurrence.raised]
        ELSE IF Instant(next_occurrence.value) > Instant(a.end_date)
        THEN [st EXCEPT !.pc = "returned"]
        ELSE [st EXCEPT
                 !.occurrences = Append(@, next_occurrence.value),
                 !.current = next_occurrence.value]

\* calculate_occurrences_until, lines 254-267: the test of the while loop
\* and one round of its body
until_iteration(st) ==
    LET a == st.args
        next_occurrence == calculate_next_occurrence_checked(st.current,
                                                             a.pattern)
    IN  IF ~(st.count < a.max_count) THEN [st EXCEPT !.pc = "returned"]
        ELSE IF next_occurrence.raised # "none"
        THEN [st EXCEPT !.pc = "raised", !.raised = next_occurrence.raised]
        ELSE IF Instant(next_occurrence.value) > Instant(a.end_date)
        THEN [st EXCEPT !.pc = "returned"]
        ELSE [st EXCEPT
                 !.occurrences = Append(@, next_occurrence.value),
                 !.current = next_occurrence.value,
                 !.count = @ + 1]

EndDates ==
    {At(DT(2024, 1, 1, 0, 0), "UTC"), At(DT(2026, 2, 1, 10, 0), "UTC"),
     At(DT(2026, 3, 1, 10, 0), "UTC"), At(DT(2026, 3, 1, 10, 0), NoneS)}
MaxCounts == 0..3

OccurrencesUntilArgs ==
    [op : {"args"}, fn : {"calculate_occurrences_until"},
     start_date : CalcDates, pattern : CalcPatterns, end_date : EndDates,
     max_count : MaxCounts]

\* the call is made
OccurrencesUntil ==
    /\ last.op = "args"
    /\ last.fn = "calculate_occurrences_until"
    /\ Applied(until_begin([op |-> "calculate_occurrences_until",
                            args |-> last, pc |-> "begin", raised |-> "none",
                            occurrences |-> <<>>, current |-> NoneDate,
                            count |-> 0]))

\* the call goes once round its loop
OccurrencesUntilLoop ==
    /\ last.op = "calculate_occurrences_until"
    /\ last.pc = "loop"
    /\ last' = until_iteration(last)
    /\ UNCHANGED <<scheduler_service, tasks, nextTaskId, history, nextHistId, jobs, now, sess,
                   served>>

NextOccurrenceArgs ==
    [op : {"args"}, fn : {"calculate_next_occurrence"},
     current_due : CalcDates, pattern : CalcPatterns]

NextOccurrence ==
    /\ last.op = "args"
    /\ last.fn = "calculate_next_occurrence"
    /\ Applied([op |-> "calculate_next_occurrence", args |-> last,
                result |-> calculate_next_occurrence_checked(
                               last.current_due, last.pattern)])

InitCalc ==
    /\ Blank
    /\ last \in NextOccurrenceArgs \cup MultipleOccurrencesArgs
                    \cup OccurrencesUntilArgs

NextCalc ==
    \/ NextOccurrence
    \/ MultipleOccurrences
    \/ OccurrencesUntil
    \/ OccurrencesUntilLoop

SpecCalc == InitCalc /\ [][NextCalc]_vars

\* a call that is in its loop goes on running
SpecCalcLive == SpecCalc /\ WF_vars(OccurrencesUntilLoop)

\* ================================================================ claims
Owner(id) == tasks[id].user_id

\* the DELETED entries of history table H that hold the snapshot of row t
\* of task id and can be restored
DeletedEntries(H, id, t) ==
    {h \in DOMAIN H :
        /\ H[h].original_task_id = id
        /\ H[h].action_type = "DELETED"
        /\ H[h].can_restore
        /\ H[h].user_id = t.user_id
        /\ H[h].title = t.title
        /\ H[h].description = t.description
        /\ H[h].completed = t.completed
        /\ H[h].due_date = t.due_date
        /\ H[h].recurrence_pattern =
              (IF Truthy(t.recurrence_pattern) THEN t.recurrence_pattern ELSE NoneS)}

\* C1: whenever a step removes the row of a task T, the history store holds
\* in the state it leads to exactly one restorable DELETED entry with T's
\* snapshot.
C1_DeleteYieldsHistory ==
    [][\A id \in DOMAIN tasks :
          id \notin DOMAIN tasks'
              => Cardinality(DeletedEntries(history', id, tasks[id])) = 1]_vars

\* C2: a Delete during which the history write fails is aborted: it does not
\* report success and the row of the task is still there.
C2_DeleteFailsClosed ==
    \A id \in DOMAIN tasks :
        LET r == delete_task(Store, id, Owner(id), FALSE, now)
        IN  r.result # "ok" /\ id \in DOMAIN r.S.tasks

\* the requests that have inserted a task restored from history entry h
Restorers(h) ==
    {p \in Procs : /\ sess[p].op = "restore"
                   /\ sess[p].pc \in {"mark", "done"}
                   /\ sess[p].id = h
                   /\ sess[p].new_id # 0}

\* C3: over every interleaving of Restore requests on one history entry, at
\* most one of them creates a task from it.
C3_ExactlyOnceRestore ==
    \A h \in DOMAIN history : Cardinality(Restorers(h)) <= 1

Completions(id) ==
    {complete_task(Store, id, Owner(id)),
     chat_complete_task(Store, id, Owner(id), now),
     tool_complete_task(Store, Owner(id), id)}

\* C5: Complete of a task that is already completed fails with a conflict
\* and changes nothing.
C5_CompleteTwiceConflicts ==
    \A id \in DOMAIN tasks :
        tasks[id].completed
            => \A r \in Completions(id) :
                  /\ r.result \in {"ConflictError", "ALREADY_COMPLETED"}
                  /\ r.S = Store

\* C6: Complete of a recurring task that is not completed creates exactly
\* one task, due at the next occurrence, not completed, with the title,
\* description, pattern and reminder of the original and no client_id; the
\* original keeps its id and is completed.
C6_CompleteCreatesNextInstance ==
    \A id \in DOMAIN tasks :
        (tasks[id].is_recurring /\ ~tasks[id].completed)
            => \A r \in Completions(id) :
                  LET created == (DOMAIN r.S.tasks) \ (DOMAIN tasks)
                  IN  /\ Cardinality(created) = 1
                      /\ \A n \in created :
                            /\ r.S.tasks[n].due_date =
                                 calculate_next_occurrence(
                                     tasks[id].due_date,
                                     tasks[id].recurrence_pattern)
                            /\ r.S.tasks[n].completed = FALSE
                            /\ r.S.tasks[n].title = tasks[id].title
                            /\ r.S.tasks[n].description = tasks[id].description
                            /\ r.S.tasks[n].recurrence_pattern =
                                 tasks[id].recurrence_pattern
                            /\ r.S.tasks[n].reminder_minutes =
                                 tasks[id].reminder_minutes
                            /\ r.S.tasks[n].client_id = NoneS
                      /\ id \in DOMAIN r.S.tasks
                      /\ r.S.tasks[id].completed = TRUE

CompletedPatch ==
    [title |-> NoneS, description |-> NoneS, completed |-> "True",
     due_date |-> NoDate]

\* C7: from the same state, Update with completed = true on a task that is
\* not completed and Complete of that task leave the same store.
C7_UpdateCompletesLikeComplete ==
    \A id \in DOMAIN tasks :
        ~tasks[id].completed
            => /\ update_task(Store, id, Owner(id), CompletedPatch, TRUE, now).S
                    = complete_task(Store, id, Owner(id)).S
               /\ chat_update_task(Store, id, Owner(id), CompletedPatch).S
                    = chat_complete_task(Store, id, Owner(id), now).S

\* C8: no two Update requests that read the same task at the same version
\* both succeed.
C8_StaleUpdateConflicts ==
    \A p, q \in Procs :
        (/\ p # q
         /\ sess[p].op = "update" /\ sess[p].pc = "done"
         /\ sess[q].op = "update" /\ sess[q].pc = "done"
         /\ sess[p].id = sess[q].id
         /\ sess[p].read_version = sess[q].read_version)
            => ~(sess[p].result = "ok" /\ sess[q].result = "ok")

\* C9: every step that changes the row of a task raises its version by one.
C9_EveryWriteBumpsVersion ==
    [][\A id \in (DOMAIN tasks) \cap (DOMAIN tasks') :
          tasks'[id] # tasks[id]
              => tasks'[id].version = tasks[id].version + 1]_vars

JobsOf(js, t) == {j \in js : j.id[1] = t}
ReminderJobs(js, t) == {j \in JobsOf(js, t) : j.id[2] # "due"}
DueJobs(js, t) == {j \in JobsOf(js, t) : j.id[2] = "due"}

\* C15: a call of ScheduleNotification with a due date that is not in the
\* future leaves the job store as it is; with a due date in the future and a
\* reminder time that is not, it schedules the due job at the due date and no
\* reminder; with both in the future it schedules a reminder job at due date
\* minus reminder minutes and the due job at the due date.
C15_ScheduleOnlyFuture ==
    [][(served' # served /\ last'.op = "schedule_notification")
          => LET t == last'.id
                 d == last'.due_date
                 rm == last'.reminder_minutes
             IN  /\ \A o \in SchedTasks \ {t} : JobsOf(jobs', o) = JobsOf(jobs, o)
                 /\ (d <= now) => jobs' = jobs
                 /\ (d > now /\ d - rm <= now)
                       => /\ ReminderJobs(jobs', t) = ReminderJobs(jobs, t)
                          /\ \E j \in DueJobs(jobs', t) : j.run_at = d
                 /\ (d > now /\ d - rm > now)
                       => /\ \E j \in ReminderJobs(jobs', t) : j.run_at = d - rm
                          /\ \E j \in DueJobs(jobs', t) : j.run_at = d]_vars

\* the last call fell in the second case, for a task that holds a reminder
\* job from an earlier call and the due job
C15_Witness ==
    /\ last.op = "schedule_notification"
    /\ last.due_date > now /\ last.due_date - last.reminder_minutes <= now
    /\ DueJobs(jobs, last.id) # {}
    /\ ReminderJobs(jobs, last.id) # {}

\* C16: after a call of ScheduleNotification for task T the job store holds
\* at most one reminder job and at most one due job of T, and they are the
\* ones of that call.
C16_RescheduleSupersedes ==
    (last.op = "schedule_notification")
        => LET t == last.id
           IN  /\ Cardinality(ReminderJobs(jobs, t)) <= 1
               /\ Cardinality(DueJobs(jobs, t)) <= 1
               /\ \A j \in ReminderJobs(jobs, t) :
                     j.run_at = last.due_date - last.reminder_minutes
               /\ \A j \in DueJobs(jobs, t) : j.run_at = last.due_date

\* C17: a call of CancelNotifications for task T leaves no job of T, leaves
\* the jobs of other tasks alone, and changes nothing when T had no job.
C17_CancelRemovesAllJobs ==
    [][(served' # served /\ last'.op = "cancel_notification")
          => LET t == last'.id
             IN  /\ JobsOf(jobs', t) = {}
                 /\ \A o \in SchedTasks \ {t} : JobsOf(jobs', o) = JobsOf(jobs, o)
                 /\ (JobsOf(jobs, t) = {}) => jobs' = jobs]_vars

\* the requests that create a task, and the ones the claims call invalid
CreateOps == {"api_create_task", "add_task", "add_task_with_due_date"}
BadCreate(q) ==
    \/ Len(q.title) < 1
    \/ Len(q.title) > MaxTitle
    \/ Len(q.description) > MaxDescription
    \/ (Truthy(q.recurrence_pattern) /\ q.recurrence_pattern \notin AllPatterns)
    \/ (Truthy(q.recurrence_pattern) /\ q.due_date = NoDate)

\* C11: a Create request whose title is not 1..200 characters long, whose
\* description is over 1000 characters, whose recurrence pattern is unknown
\* or comes without a due date, is rejected and leaves the task store, the
\* history store and the job store as they were.
C11_BadCreateChangesNothing ==
    [][(served' # served /\ last'.op \in CreateOps /\ BadCreate(last'))
          => /\ last'.result # "ok"
             /\ tasks' = tasks
             /\ history' = history
             /\ jobs' = jobs]_vars

\* a Create with an unknown pattern has been rejected by a store that holds
\* tasks and jobs
C11_Witness ==
    /\ last.op = "add_task_with_due_date"
    /\ last.recurrence_pattern = "hourly"
    /\ last.result = "VALIDATION_ERROR"
    /\ tasks # <<>>
    /\ jobs # {}

\* C12: Create with a due date D and one of the five patterns p succeeds and
\* stores a task with is_recurring = true, recurrence_pattern = p and
\* next_occurrence = NextOccurrence(D, p).
C12_CreateRecurring ==
    [][(/\ served' # served
        /\ last'.op = "add_task_with_due_date"
        /\ ~BadCreate(last')
        /\ last'.due_date # NoDate
        /\ last'.recurrence_pattern \in AllPatterns
        /\ last'.fault = "none")
          => /\ last'.result = "ok"
             /\ last'.id \in DOMAIN tasks'
             /\ tasks'[last'.id].is_recurring = TRUE
             /\ tasks'[last'.id].recurrence_pattern = last'.recurrence_pattern
             /\ tasks'[last'.id].next_occurrence =
                   calculate_next_occurrence(last'.due_date,
                                             last'.recurrence_pattern)]_vars

\* C13: when the scheduling after a Create, or the creation of the next
\* instance or its scheduling after a Complete, fails, the request that
\* would have succeeded still returns success, and the task it created or
\* completed stays so.
C13_SideEffectsFailSoft ==
    [][(served' # served /\ last'.fault # "none")
          => /\ (/\ last'.op = "add_task_with_due_date"
                 /\ tool_add_task_with_due_date(
                        Store, last'.user, last'.title, last'.description,
                        last'.due_date, last'.recurrence_pattern,
                        last'.reminder_minutes, now, "none").result = "ok")
                   => /\ last'.result = "ok"
                      /\ last'.id \in DOMAIN tasks'
             /\ (/\ last'.op = "chat_complete_task"
                 /\ chat_complete_task(Store, last'.id, last'.user,
                                       now).result = "ok")
                   => /\ last'.result = "ok"
                      /\ tasks'[last'.id].completed = TRUE]_vars

\* the requests on one task
TaskOps ==
    {"update_task", "delete_task", "complete_task", "chat_complete_task",
     "chat_delete_task", "chat_update_task_due_date", "tool_complete_task",
     "tool_delete_task", "tool_update_task_due_date"}

\* C14: Update, Complete, Delete and Restore by a caller who does not own
\* the task or history entry, or for an id there is none of, return not
\* found and leave the tasks, the history and the jobs as they were.
C14_OwnerIsolation ==
    [][(/\ served' # served
        /\ \/ /\ last'.op \in TaskOps
              /\ \/ last'.id \notin DOMAIN tasks
                 \/ tasks[last'.id].user_id # last'.user
           \/ /\ last'.op = "restore_deleted_task"
              /\ \/ last'.id \notin DOMAIN history
                 \/ history[last'.id].user_id # last'.user)
          => /\ last'.result \in {"NotFound", "TASK_NOT_FOUND"}
             /\ tasks' = tasks
             /\ history' = history
             /\ jobs' = jobs]_vars

\* the task of another user, which has a job, has been named in a Delete,
\* and the history entry of another user in a Restore before it
C14_Witness ==
    /\ last.op \in {"delete_task", "chat_delete_task", "tool_delete_task"}
    /\ last.id \in DOMAIN tasks
    /\ tasks[last.id].user_id # last.user
    /\ JobsOf(jobs, last.id) # {}
    /\ last.result \in {"NotFound", "TASK_NOT_FOUND"}

\* C18: an Update that changes the due date or the reminder minutes of a
\* task leaves in the job store, for that task, exactly the jobs that
\* ScheduleNotification yields for the new due date and reminder minutes.
C18_UpdateReschedules ==
    [][(/\ served' # served
        /\ last'.op \in {"update_task", "chat_update_task_due_date",
                         "tool_update_task_due_date"}
        /\ last'.result = "ok"
        /\ last'.id \in DOMAIN tasks
        /\ last'.id \in DOMAIN tasks'
        /\ \/ tasks'[last'.id].due_date # tasks[last'.id].due_date
           \/ tasks'[last'.id].reminder_minutes
                 # tasks[last'.id].reminder_minutes)
          => JobsOf(jobs', last'.id)
                = schedule_notification({}, last'.id, tasks'[last'.id].title,
                                        tasks'[last'.id].due_date,
                                        tasks'[last'.id].reminder_minutes,
                                        now)]_vars

\* C19: no reminder or due job is pending for a task whose row is absent.
C19_DeleteCancelsJobs ==
    \A j \in jobs : j.id[1] \in DOMAIN tasks

\* the history entries a purge with this cutoff has to delete
Expired(H, cutoff) == {h \in DOMAIN H : H[h].retention_until < cutoff}

\* C20: Purge(cutoff) deletes exactly the history entries whose
\* retention_until is before cutoff, keeps every entry whose retention_until
\* is cutoff or later as it was, and returns the number of entries it
\* deleted; the daily job does the same with the clock as cutoff.
C20_PurgeDeletesExactlyExpired ==
    [][(/\ served' # served
        /\ last'.op \in {"cleanup_old_history", "cleanup_old_history_job"})
          => /\ DOMAIN history'
                   = DOMAIN history \ Expired(history, last'.cutoff_date)
             /\ \A h \in DOMAIN history' : history'[h] = history[h]
             /\ last'.op = "cleanup_old_history"
                   => last'.result
                         = Cardinality(Expired(history, last'.cutoff_date))
             /\ tasks' = tasks]_vars

\* a purge has deleted an entry and kept one whose retention_until is the
\* cutoff
C20_Witness ==
    /\ last.op = "cleanup_old_history"
    /\ last.result >= 1
    /\ \E h \in DOMAIN history :
          history[h].retention_until = last.cutoff_date

\* C21: a history entry is restorable only if its action type is DELETED:
\* an entry that was constructed, with whatever arguments, and every entry
\* of the history table, has can_restore = true only with action_type
\* DELETED.
C21_RestorableOnlyIfDeleted ==
    /\ (last.op \in {"TaskHistory", "from_task"} /\ ~last.raised)
          => (last.entry.can_restore => last.entry.action_type = "DELETED")
    /\ \A h \in DOMAIN history :
          history[h].can_restore => history[h].action_type = "DELETED"

Snapshot(r) ==
    [user_id |-> r.user_id, title |-> r.title, description |-> r.description,
     completed |-> r.completed, due_date |-> r.due_date,
     recurrence_pattern |-> r.recurrence_pattern]

\* C23: Delete followed by Restore gives the task back: the entry a Delete
\* writes holds the owner, title, description, completed, due date and
\* recurrence pattern of the task it deletes, no later step changes them,
\* and a successful Restore of the entry creates a task with a new id,
\* version 1, these very fields, and is_recurring true exactly when there
\* is a recurrence pattern.
C23_DeleteRestoreRoundTrip ==
    [][/\ (/\ served' # served
           /\ last'.op = "delete_task"
           /\ last'.result = "ok"
           /\ nextHistId' # nextHistId)
             => /\ Snapshot(history'[nextHistId]) = Snapshot(tasks[last'.id])
                /\ history'[nextHistId].original_task_id = last'.id
                /\ history'[nextHistId].action_type = "DELETED"
       /\ \A h \in DOMAIN history \cap DOMAIN history' :
             /\ Snapshot(history'[h]) = Snapshot(history[h])
             /\ history'[h].original_task_id = history[h].original_task_id
       /\ (/\ served' # served
           /\ last'.op = "restore_deleted_task"
           /\ last'.result = "ok")
             => /\ nextTaskId \notin DOMAIN tasks
                /\ nextTaskId # history[last'.id].original_task_id
                /\ DOMAIN tasks' = DOMAIN tasks \cup {nextTaskId}
                /\ tasks'[nextTaskId].version = 1
                /\ Snapshot(tasks'[nextTaskId]) = Snapshot(history[last'.id])
                /\ tasks'[nextTaskId].is_recurring
                      = (history[last'.id].recurrence_pattern # NoneS)]_vars

\* a deleted weekly task with a due date has been restored under a new id
C23_Witness ==
    /\ last.op = "restore_deleted_task"
    /\ last.result = "ok"
    /\ \E id \in DOMAIN tasks :
          /\ id # history[last.id].original_task_id
          /\ history[last.id].original_task_id \notin DOMAIN tasks
          /\ tasks[id].recurrence_pattern = "weekly"
          /\ tasks[id].is_recurring
          /\ tasks[id].due_date = DueSoon

\* the matching entries by action_date descending, then id descending
RECURSIVE NewestFirst(_, _)
NewestFirst(H, rows) ==
    IF rows = {} THEN <<>>
    ELSE LET first == CHOOSE h \in rows :
                         \A k \in rows \ {h} :
                            \/ H[h].action_date > H[k].action_date
                            \/ (H[h].action_date = H[k].action_date /\ h > k)
         IN  <<first>> \o NewestFirst(H, rows \ {first})

\* C24: Query(owner, filter, page, pageSize) returns the page of the owner's
\* entries that match the filter, in the order of action_date descending
\* with equal dates by id descending, and the number of matching entries.
C24_QueryPagesInOrder ==
    [][(served' # served /\ last'.op = "get_history")
          => LET rows == history_matching(Store, last'.user, last'.query)
             IN  /\ last'.result.total = Cardinality(rows)
                 /\ last'.result.items
                       = page_of(NewestFirst(history, rows), last'.query.page,
                                 last'.query.page_size)]_vars

\* a call of calculate_next_occurrence with an aware date and one of the
\* five patterns has returned
NextOccurrenceOf(d, p) ==
    /\ last.op = "calculate_next_occurrence"
    /\ last.args.current_due = d
    /\ last.args.pattern = p

\* C25: for every timezone-aware date d and every supported pattern p,
\* NextOccurrence(d, p) is returned and is strictly later than d.
C25_NextOccurrenceIsLater ==
    (/\ last.op = "calculate_next_occurrence"
     /\ last.args.current_due \in AwareDates
     /\ last.args.pattern \in AllPatterns)
       => /\ last.result.raised = "none"
          /\ Instant(last.result.value) > Instant(last.args.current_due)

\* the next monthly occurrence of a Jan 31 has been computed
C25_Witness ==
    /\ NextOccurrenceOf(At(DT(2026, 1, 31, 10, 0), "+05:00"), "monthly")
    /\ last.result.raised = "none"

\* the date with the day of month of t, or the last day of the month if
\* there is no such day, in month m of year y, at the time of day of t
SameDayIn(t, y, m) ==
    DT(y, m, Min(DayOf(t), DaysInMonth(y, m)), 0, 0) + MinuteOfDay(t)

\* C26: NextOccurrence adds exactly 1, 7 and 14 days for daily, weekly and
\* bi-weekly; for monthly and yearly it gives the same day of the month in
\* the next month or year, or the last day of that month if it is shorter;
\* the time of day and the timezone stay.
C26_NextOccurrenceExact ==
    (/\ last.op = "calculate_next_occurrence"
     /\ last.args.current_due \in AwareDates
     /\ last.args.pattern \in AllPatterns)
       => LET d == last.args.current_due.wall
              p == last.args.pattern
              v == last.result.value
          IN  /\ last.result.raised = "none"
              /\ v.tzinfo = last.args.current_due.tzinfo
              /\ MinuteOfDay(v.wall) = MinuteOfDay(d)
              /\ p = "daily" => v.wall = d + 1 * 24 * 60
              /\ p = "weekly" => v.wall = d + 7 * 24 * 60
              /\ p = "bi-weekly" => v.wall = d + 14 * 24 * 60
              /\ p = "monthly"
                    => v.wall = IF MonthOf(d) = 12
                                THEN SameDayIn(d, YearOf(d) + 1, 1)
                                ELSE SameDayIn(d, YearOf(d), MonthOf(d) + 1)
              /\ p = "yearly" => v.wall = SameDayIn(d, YearOf(d) + 1, MonthOf(d))
              /\ (d = DT(2026, 1, 31, 10, 0) /\ p = "monthly")
                    => v.wall = DT(2026, 2, 28, 10, 0)
              /\ (d = DT(2024, 1, 31, 10, 0) /\ p = "monthly")
                    => v.wall = DT(2024, 2, 29, 10, 0)
              /\ (d = DT(2024, 2, 29, 10, 0) /\ p = "yearly")
                    => v.wall = DT(2025, 2, 28, 10, 0)

\* the next yearly occurrence of a Feb 29 has been computed
C26_Witness ==
    /\ NextOccurrenceOf(At(DT(2024, 2, 29, 10, 0), "UTC"), "yearly")
    /\ last.result.value.wall = DT(2025, 2, 28, 10, 0)

\* the messages of the errors about the date, and about the pattern
InvalidInputErrors ==
    {"current_due cannot be None", "current_due must be timezone-aware"}
UnknownPatternErrors ==
    {"Recurrence pattern cannot be empty", "Unknown recurrence pattern"}

C28_MultipleOccurrencesChain ==
    last.op = "calculate_multiple_occurrences"
       => LET a == last.args
              r == last.result
              v == r.value
              prev(i) == IF i = 1 THEN a.start_date ELSE v[i - 1]
          IN  /\ a.count < 0 => (r.raised # "none" /\ v = <<>>)
              /\ a.count = 0 => (r.raised = "none" /\ v = <<>>)
              /\ (/\ a.count > 0
                  /\ a.start_date \in AwareDates
                  /\ a.pattern \in AllPatterns)
                    => /\ r.raised = "none"
                       /\ Len(v) = a.count
                       /\ \A i \in 1..a.count :
                             /\ v[i] = calculate_next_occurrence_checked(
                                           prev(i), a.pattern).value
                             /\ Instant(v[i]) > Instant(prev(i))
                             /\ a.pattern = "weekly"
                                   => v[i].wall = prev(i).wall + 7 * 24 * 60
              /\ (/\ a.start_date = At(DT(2026, 2, 1, 10, 0), "UTC")
                  /\ a.pattern = "weekly"
                  /\ a.count = 3)
                    => v = <<At(DT(2026, 2, 8, 10, 0), "UTC"),
                             At(DT(2026, 2, 15, 10, 0), "UTC"),
                             At(DT(2026, 2, 22, 10, 0), "UTC")>>

\* three monthly occurrences of a Jan 31 have been computed
C28_Witness ==
    /\ last.op = "calculate_multiple_occurrences"
    /\ last.args.start_date = At(DT(2026, 1, 31, 10, 0), "UTC")
    /\ last.args.pattern = "monthly"
    /\ last.args.count = 3
    /\ Len(last.result.value) = 3

\* a call of calculate_occurrences_until is running, and is over
UntilRunning == last.op = "calculate_occurrences_until" /\ last.pc = "loop"
UntilOver ==
    last.op = "calculate_occurrences_until" /\ last.pc \in {"returned", "raised"}

\* what the occurrences gathered by a call are at every moment of it
UntilBounded ==
    last.op = "calculate_occurrences_until"
       => LET a == last.args
              v == last.occurrences
          IN  /\ Len(v) <= a.max_count
              /\ \A i \in 1..Len(v) :
                    /\ Instant(v[i]) > Instant(a.start_date)
                    /\ Instant(v[i]) <= Instant(a.end_date)
                    /\ i > 1 => Instant(v[i]) > Instant(v[i - 1])
              /\ (/\ last.pc = "returned"
                  /\ Comparable(a.end_date, a.start_date)
                  /\ Instant(a.end_date) <= Instant(a.start_date))
                    => v = <<>>

\* C29: OccurrencesUntil(start, p, end, maxCount) returns, in increasing
\* order, occurrences strictly after start and at or before end, never more
\* than maxCount of them, the empty sequence when end <= start, and every
\* call of it comes to an end.
C29_OccurrencesUntilBounded ==
    /\ []UntilBounded
    /\ (UntilRunning ~> UntilOver)

\* a call has returned as many weekly occurrences as max_count allows, with
\* more of them before the end date
C29_Witness ==
    /\ last.op = "calculate_occurrences_until"
    /\ last.pc = "returned"
    /\ last.args.pattern = "weekly"
    /\ last.args.max_count = 3
    /\ Len(last.occurrences) = 3
    /\ Instant(last.occurrences[3]) + 7 * 24 * 60 <= Instant(last.args.end_date)

\* the requests that complete a task
CompleteOps == {"complete_task", "chat_complete_task", "tool_complete_task"}

\* C30: a Complete writes the completion of the task and its COMPLETED
\* history entry together or not at all: whatever a Complete request comes
\* to, failures part-way included, it leaves the task completed exactly if
\* it leaves a new COMPLETED entry for the task.
C30_CompleteWritesEntryWithTask ==
    [][(/\ served' # served
        /\ last'.op \in CompleteOps
        /\ last'.id \in DOMAIN tasks)
          => LET id == last'.id
                 completes == /\ ~tasks[id].completed
                              /\ id \in DOMAIN tasks'
                              /\ tasks'[id].completed
                 records == \E h \in DOMAIN history' \ DOMAIN history :
                               /\ history'[h].action_type = "COMPLETED"
                               /\ history'[h].original_task_id = id
             IN  completes <=> records]_vars

\* the requests that complete a task and create its next instance
InstanceOps == {"update_task", "chat_complete_task"}

\* C31: the instance created when a recurring task with due date D and
\* pattern p is completed has next_occurrence =
\* NextOccurrence(NextOccurrence(D, p), p), and has a notification job at
\* its own due date.
C31_InstanceNextOccurrence ==
    [][\A id \in DOMAIN tasks :
        (/\ served' # served
         /\ last'.op \in InstanceOps
         /\ last'.id = id
         /\ last'.fault = "none"
         /\ last'.result = "ok"
         /\ tasks[id].is_recurring
         /\ ~tasks[id].completed
         /\ id \in DOMAIN tasks'
         /\ tasks'[id].completed
         /\ nextTaskId' = nextTaskId + 1)
           => LET n == nextTaskId
                  D == tasks[id].due_date
                  p == tasks[id].recurrence_pattern
              IN  /\ tasks'[n].next_occurrence =
                        calculate_next_occurrence(
                            calculate_next_occurrence(D, p), p)
                  /\ \E j \in jobs' : /\ j.id = JobId(n, "due")
                                      /\ j.run_at = tasks'[n].due_date]_vars

\* ------------------------------------------- the life of a history entry
\* the task operations, Restore and the purge on one store, by one user;
\* a call leaves the store as S and is logged as rec
Archived(S, rec) ==
    /\ served < MaxArchived
    /\ served' = served + 1
    /\ tasks' = S.tasks
    /\ nextTaskId' = S.nextTaskId
    /\ history' = S.history
    /\ nextHistId' = S.nextHistId
    /\ jobs' = S.jobs
    /\ last' = rec
    /\ UNCHANGED <<scheduler_service, now, sess>>

OnHist(op, r) == Archived(r.S, [op |-> op, result |-> r.result])

HistCreate ==
    \E u \in Creators :
        OnHist("create_task", create_task(Store, u, "a", "d", NoneS, NoDate))

HistDelete ==
    \E u \in Creators, id \in TaskIds, ok \in BOOLEAN :
        OnHist("delete_task", delete_task(Store, id, u, ok, now))

HistUpdate ==
    \E u \in Creators, id \in TaskIds, c \in {"None", "True"}, ok \in BOOLEAN :
        OnHist("update_task",
               update_task(Store, id, u,
                           [title |-> NoneS, description |-> NoneS,
                            completed |-> c, due_date |-> NoDate], ok, now))

HistComplete ==
    \E u \in Creators, id \in TaskIds :
        OnHist("complete_task", complete_task(Store, id, u))

HistChatComplete ==
    \E u \in Creators, id \in TaskIds :
        OnHist("chat_complete_task", chat_complete_task(Store, id, u, now))

HistRestore ==
    \E u \in Creators, h \in HistIds :
        OnHist("restore_deleted_task", restore_deleted_task(Store, h, u))

HistCleanup ==
    \E c \in RetentionInstants :
        OnHist("cleanup_old_history", cleanup_old_history(Store, c))

HistCleanupJob ==
    OnHist("cleanup_old_history_job", cleanup_old_history_job(Store, now))

\* the clock: a later instant of the same day, and the day the entries
\* written at the start are out of retention
HistInstants ==
    {DT(2026, 1, 1, 0, 10), AddYears(DT(2026, 1, 1, 0, 10), RetentionYears)}

HistTick ==
    /\ \E t \in HistInstants : t > now /\ now' = t
    /\ UNCHANGED <<scheduler_service, tasks, nextTaskId, history, nextHistId, jobs, sess, served,
                   last>>

NextHist ==
    \/ HistCreate
    \/ HistDelete
    \/ HistUpdate
    \/ HistComplete
    \/ HistChatComplete
    \/ HistRestore
    \/ HistCleanup
    \/ HistCleanupJob
    \/ HistTick

SpecHist == Init /\ [][NextHist]_vars

\* the calls that purge
PurgeOps == {"cleanup_old_history", "cleanup_old_history_job"}

\* entry h is after the step what it was before, can_restore apart
SameEntry(h) ==
    \A f \in (DOMAIN history[h]) \ {"can_restore"} :
        history'[h][f] = history[h][f]

\* C32: a history entry never changes after its creation: every step
\* leaves its snapshot, action_type, action_date, action_by and
\* retention_until (action_date + 2 years) as they were; can_restore changes
\* only from true to false and only in a Restore; a row disappears only in
\* a purge, so no task operation removes or rewrites an entry.
C32_EntryImmutable ==
    [][/\ \A h \in DOMAIN history' :
            history'[h].retention_until =
                AddYears(history'[h].action_date, RetentionYears)
       /\ \A h \in DOMAIN history :
            IF h \in DOMAIN history'
            THEN /\ SameEntry(h)
                 /\ history'[h].can_restore # history[h].can_restore
                      => /\ last'.op = "restore_deleted_task"
                         /\ served' # served
                         /\ history[h].can_restore
                         /\ ~history'[h].can_restore
            ELSE served' # served /\ last'.op \in PurgeOps]_vars

\* a COMPLETED entry was purged while the entry of a later Delete, consumed
\* by a Restore, is still there as it was written
C32_Witness ==
    /\ last.op = "cleanup_old_history"
    /\ last.result = 1
    /\ \E h \in DOMAIN history :
        /\ history[h].action_type = "DELETED"
        /\ ~history[h].can_restore
        /\ history[h].action_date > StartTime

\* ------------------------------------------- the scheduler and its jobs
\* CronTrigger(hour=2, minute=0, timezone=pytz.UTC)
CleanupHour == 2

\* the first fire time of the cron trigger that is not before nw
next_fire_time(nw) ==
    LET t == (nw \div MinutesPerDay) * MinutesPerDay + CleanupHour * 60
    IN  IF t >= nw THEN t ELSE t + MinutesPerDay

\* the job ids that are not a task's
CleanupJobId == JobId(0, "history_cleanup_daily")

\* SchedulerService.schedule_history_cleanup
schedule_history_cleanup(js, nw) ==
    AddJob(js, [id |-> CleanupJobId, run_at |-> next_fire_time(nw),
                args |-> <<>>])

\* SchedulerService.schedule_recurring_task_creation
schedule_recurring_task_creation(js, task_id, recurrence_pattern, next_occurrence) ==
    AddJob(js, [id |-> JobId(task_id, "recurring_task"),
                run_at |-> next_occurrence, args |-> <<task_id>>])

\* what a call leaves of the global and of the job store
Sched(svc, js, result) == [svc |-> svc, jobs |-> js, result |-> result]

\* initialize_scheduler that schedules the cleanup under a new id each time
initialize_scheduler_again(svc, js, nw) ==
    IF svc = NoneS
    THEN Sched("started",
               js \cup {[id |-> JobId(Cardinality(js), "history_cleanup_daily"),
                         run_at |-> next_fire_time(nw), args |-> <<>>]},
               "ok")
    ELSE Sched(svc, js, "ok")

\* initialize_scheduler: SchedulerService(database_url), start(),
\* schedule_history_cleanup(), when the global is None
initialize_scheduler(svc, js, nw) ==
    IF svc = NoneS
    THEN Sched("started", schedule_history_cleanup(js, nw), "ok")
    ELSE Sched(svc, js, "ok")

\* shutdown_scheduler: the scheduler stops, the global is None again; the
\* jobs stay in the SQLAlchemyJobStore
shutdown_scheduler(svc, js) == Sched(NoneS, js, "ok")

\* get_scheduler raises RuntimeError when the global is None
get_scheduler_raises(svc) == svc = NoneS

\* SchedulerService._send_notification_trigger: it logs the notification
send_notification_trigger(S, task_id, task_title, reminder_minutes) ==
    Ret(S, "ok")

\* _create_recurring_task_instance without its try/except
create_recurring_task_instance_uncaught(S, original_task_id) ==
    Ret(S, "TypeError")

\* SchedulerService._create_recurring_task_instance.  Line 231 calls
\* TaskService.create_recurring_instance, a static method of (session,
\* original_task), with the task id alone: the call raises TypeError, which
\* line 234 catches and logs.  Nothing is created.
create_recurring_task_instance(S, original_task_id) ==
    Ret(S, "logged")

\* cleanup_old_history_job when the database fails (fault) or not: the
\* except clause of line 51 logs the error
cleanup_old_history_job_fault(S, nw, fault) ==
    IF fault THEN Ret(S, "logged")
    ELSE Ret(cleanup_old_history_job(S, nw).S, "ok")

\* the callback of job j
run_callback(S, j, nw, fault) ==
    IF j.id[2] = "history_cleanup_daily"
    THEN cleanup_old_history_job_fault(S, nw, fault)
    ELSE IF j.id[2] = "recurring_task"
    THEN create_recurring_task_instance(S, j.args[1])
    ELSE send_notification_trigger(S, j.args[1], j.args[2], j.args[3])

\* the job store once job j has been processed at nw: a DateTrigger has no
\* further fire time, the CronTrigger has its next one
after_run(js, j, nw) ==
    IF j.id[2] = "history_cleanup_daily"
    THEN AddJob(js, [j EXCEPT !.run_at = next_fire_time(nw + 1)])
    ELSE js \ {j}

\* ------------------------------------------------- the scheduler's loop
\* a call leaves the store as S and the global as svc, and is logged as rec
\* with the number of callback errors so far
Looped(S, svc, rec) ==
    /\ served < MaxLoop
    /\ served' = served + 1
    /\ tasks' = S.tasks
    /\ nextTaskId' = S.nextTaskId
    /\ history' = S.history
    /\ nextHistId' = S.nextHistId
    /\ jobs' = S.jobs
    /\ scheduler_service' = svc
    /\ last' = rec @@ [errors |-> last.errors]
    /\ UNCHANGED <<now, sess>>

OnScheduler(op, r) ==
    Looped([Store EXCEPT !.jobs = r.jobs], r.svc, [op |-> op, result |-> r.result])

InitializeScheduler ==
    OnScheduler("initialize_scheduler",
                initialize_scheduler(scheduler_service, jobs, now))

ShutdownScheduler ==
    OnScheduler("shutdown_scheduler",
                shutdown_scheduler(scheduler_service, jobs))

\* get_scheduler().schedule_history_cleanup()
ScheduleHistoryCleanup ==
    OnScheduler("schedule_history_cleanup",
                IF get_scheduler_raises(scheduler_service)
                THEN Sched(scheduler_service, jobs, "RuntimeError")
                ELSE Sched(scheduler_service,
                           schedule_history_cleanup(jobs, now), "ok"))

\* get_scheduler().schedule_recurring_task_creation(...) for a recurring task
ScheduleRecurringTaskCreation ==
    \E id \in DOMAIN tasks :
        /\ tasks[id].is_recurring
        /\ OnScheduler("schedule_recurring_task_creation",
                IF get_scheduler_raises(scheduler_service)
                THEN Sched(scheduler_service, jobs, "RuntimeError")
                ELSE Sched(scheduler_service,
                           schedule_recurring_task_creation(
                               jobs, id, tasks[id].recurrence_pattern,
                               tasks[id].next_occurrence),
                           "ok"))

\* due dates of the tasks created while the loop runs
LoopDues == {DT(2026, 1, 1, 0, 20), DT(2026, 1, 1, 3, 0)}

\* TaskService.create_task (todo_chatbot) of a daily task; get_scheduler
\* raises when the global is None
LoopCreate ==
    \E d \in LoopDues :
        LET r == chat_create_task_fault(
                     Store, 1, "a", "d", NoneS, d, "daily", 15, now,
                     IF get_scheduler_raises(scheduler_service)
                     THEN "schedule:RuntimeError" ELSE "none")
        IN  Looped(r.S, scheduler_service,
                   [op |-> "chat_create_task", result |-> r.result])

\* the loop has processed job j: the store is S, the callback came to
\* `result`
Processed(S, j, op, result) ==
    /\ served' = served + 1
    /\ tasks' = S.tasks
    /\ nextTaskId' = S.nextTaskId
    /\ history' = S.history
    /\ nextHistId' = S.nextHistId
    /\ jobs' = after_run(S.jobs, j, now)
    /\ last' = [op |-> op, job |-> j.id, result |-> result,
                errors |-> last.errors + IF result \in {"ok", "missed"}
                                         THEN 0 ELSE 1]
    /\ UNCHANGED <<now, sess, scheduler_service>>

\* the running scheduler executes the callback of a job whose run time has
\* come
RunDueJob ==
    /\ scheduler_service = "started"
    /\ \E j \in jobs, fault \in BOOLEAN :
        /\ j.run_at <= now
        /\ fault => j.id[2] = "history_cleanup_daily"
        /\ Processed(run_callback(Store, j, now, fault).S, j, "run_job",
                     run_callback(Store, j, now, fault).result)

\* the running scheduler finds a job whose run time passed while it was
\* not running.  The scheduler is built without job_defaults and the jobs
\* are added without misfire_grace_time (lines 70-73, 114-131, 168-174,
\* 182-187), so whether such a run is executed late (RunDueJob) or skipped
\* as missed is left to the library's default.
MissJob ==
    /\ scheduler_service = "started"
    /\ \E j \in jobs :
        /\ j.run_at < now
        /\ Processed(Store, j, "miss_job", "missed")

\* where the clock stops
LoopEnd == DT(2026, 1, 2, 3, 0)
LoopInstants == {DT(2026, 1, 1, 0, 10), DT(2026, 1, 1, 2, 30), LoopEnd}

\* time passes; the running scheduler wakes when a job's run time comes
LoopTick ==
    /\ \E t \in LoopInstants \cup {j.run_at : j \in jobs} :
        /\ t > now
        /\ t <= LoopEnd
        /\ scheduler_service = "started" => \A j \in jobs : j.run_at >= t
        /\ now' = t
    /\ UNCHANGED <<tasks, nextTaskId, history, nextHistId, jobs, sess, served,
                   last, scheduler_service>>

\* the database of an application that is about to start: the entries of
\* two tasks deleted two years ago
OldEntry(task_id, action_date) ==
    from_task(NewTask(1, "a", "d"), task_id, "DELETED", 1, action_date)

InitLoop ==
    /\ tasks = <<>>
    /\ nextTaskId = 3
    /\ history = <<OldEntry(1, DT(2024, 1, 1, 1, 0)),
                   OldEntry(2, DT(2024, 1, 1, 3, 0))>>
    /\ nextHistId = 3
    /\ jobs = {}
    /\ now = StartTime
    /\ sess = [p \in Procs |-> Idle]
    /\ served = 0
    /\ last = [op |-> "none", errors |-> 0]
    /\ scheduler_service = NoneS

NextLoop ==
    \/ InitializeScheduler
    \/ ShutdownScheduler
    \/ ScheduleHistoryCleanup
    \/ ScheduleRecurringTaskCreation
    \/ LoopCreate
    \/ RunDueJob
    \/ MissJob
    \/ LoopTick

SpecLoop == InitLoop /\ [][NextLoop]_vars

\* the loop processes the jobs that are due
SpecLoopLive == SpecLoop /\ WF_vars(RunDueJob \/ MissJob)

\* the ids of the jobs there can be
LoopTaskIds == 3..(2 + MaxLoop)
LoopJobIds ==
    {CleanupJobId}
        \cup {JobId(t, s) : t \in LoopTaskIds, s \in {"15", "due", "recurring_task"}}

\* job id has come due on the running scheduler after a callback error
DueAfterError(id) ==
    /\ last.errors >= 1
    /\ scheduler_service = "started"
    /\ \E j \in jobs : j.id = id /\ j.run_at = now

\* job id has been fired, or the scheduler has been shut down
FiredOrDown(id) ==
    \/ last.op = "run_job" /\ last.job = id
    \/ scheduler_service = NoneS

\* C33: an error of a job's callback is caught: the run ends with the error
\* logged, the scheduler still running and every other job still in the job
\* store; and every job that comes due on the running scheduler after such an
\* error is eventually fired.
C33_CallbackErrorsIsolated ==
    /\ [][(served' # served /\ last'.op = "run_job")
            => /\ last'.result \in {"ok", "logged"}
               /\ scheduler_service' = "started"
               /\ \A j \in jobs : j.id # last'.job => j \in jobs']_vars
    /\ \A id \in LoopJobIds : DueAfterError(id) ~> FiredOrDown(id)

\* the due notification of a task has fired after the cleanup job failed
C33_Witness ==
    /\ last.op = "run_job"
    /\ last.job[2] = "due"
    /\ last.result = "ok"
    /\ last.errors >= 1
    /\ CleanupJobId \in {j.id : j \in jobs}

\* C34: the jobs survive a restart and fire at least once: a call of
\* shutdown_scheduler or initialize_scheduler leaves every pending job in the
\* job store with its run time, and the restarted scheduler fires a job
\* whose run time passed while it was down: it never drops it as missed.
C34_JobsSurviveRestart ==
    [][/\ (served' # served
           /\ last'.op \in {"shutdown_scheduler", "initialize_scheduler"})
            => \A j \in jobs : j \in jobs'
       /\ (served' # served /\ last'.op \in {"run_job", "miss_job"})
            => \A j \in jobs :
                  (j.id = last'.job /\ j.run_at < now) => last'.op = "run_job"]_vars

\* the retention cleanup jobs of a job store
CleanupJobs(js) == {j \in js : j.id[2] = "history_cleanup_daily"}

\* C35: the job store never holds two retention cleanup jobs; it holds
\* exactly one after every call of initialize_scheduler or
\* schedule_history_cleanup that succeeds and from then on, due at 02:00 UTC
\* of some day; and a firing of it that the database does not fail deletes
\* exactly the entries cleanup_old_history(now) deletes and nothing else.
C35_OneDailyCleanupJob ==
    [][/\ Cardinality(CleanupJobs(jobs')) <= 1
       /\ \A j \in CleanupJobs(jobs') :
            j.run_at % MinutesPerDay = CleanupHour * 60
       /\ Cardinality(CleanupJobs(jobs)) = 1
            => Cardinality(CleanupJobs(jobs')) = 1
       /\ (served' # served
           /\ last'.op \in {"initialize_scheduler", "schedule_history_cleanup"}
           /\ last'.result = "ok")
            => Cardinality(CleanupJobs(jobs')) = 1
       /\ (served' # served
           /\ last'.op = "run_job"
           /\ last'.job = CleanupJobId
           /\ last'.result = "ok")
            => /\ history' = cleanup_old_history(Store, now).S.history
               /\ DOMAIN history \ DOMAIN history' = Expired(history, now)
               /\ tasks' = tasks]_vars

\* after a restart the one cleanup job has fired and deleted the entry that
\* was out of retention; the other entry is still there
C35_Witness ==
    /\ last.op = "run_job"
    /\ last.job = CleanupJobId
    /\ last.result = "ok"
    /\ DOMAIN history = {2}
    /\ Cardinality(CleanupJobs(jobs)) = 1
    /\ served >= 4

\* C36: the job that schedule_recurring_task_creation stores for a recurring
\* task T creates, when it fires, the instance that
\* TaskService.create_recurring_instance creates for T when Complete calls
\* it: the same new row and the same notification jobs.
C36_JobCreatesSameInstance ==
    [][(/\ served' # served
        /\ last'.op = "run_job"
        /\ last'.job[2] = "recurring_task"
        /\ last'.job[1] \in DOMAIN tasks)
          => LET T == last'.job[1]
                 direct == create_recurring_instance(Store, tasks[T], now).S
             IN  /\ tasks' = direct.tasks
                 /\ nextTaskId' = direct.nextTaskId
                 /\ \A j \in direct.jobs : j.id[1] # T => j \in jobs']_vars

\* the requests that complete a task, Update with completed = true included
CompletingOps == CompleteOps \cup {"update_task"}

\* task T has a successor instance: a later recurring task of the same owner
\* and title that is due at T's next occurrence
HasSuccessor(T) ==
    \E n \in DOMAIN tasks :
        /\ n > T
        /\ tasks[n].is_recurring
        /\ tasks[n].user_id = tasks[T].user_id
        /\ tasks[n].title = tasks[T].title
        /\ tasks[n].client_id = NoneS
        /\ tasks[n].due_date \in
             {tasks[T].next_occurrence,
              calculate_next_occurrence(tasks[T].due_date,
                                        tasks[T].recurrence_pattern)}

\* C38: over any sequence of Complete and Update(completed = true) calls on
\* a recurring task T, repeated ones included, at most one successor
\* instance of T is created and at most one COMPLETED entry is written for
\* each change of T from not completed to completed: a call creates at most
\* one task and one COMPLETED entry of T, no entry when T was completed
\* already, and no task when T was completed already and has its successor.
C38_OneSuccessorPerCompletion ==
    [][\A T \in DOMAIN tasks :
        (/\ served' # served
         /\ last'.op \in CompletingOps
         /\ last'.id = T
         /\ last'.fault = "none"
         /\ tasks[T].is_recurring)
           => LET created == DOMAIN tasks' \ DOMAIN tasks
                  written == {h \in DOMAIN history' \ DOMAIN history :
                                 /\ history'[h].action_type = "COMPLETED"
                                 /\ history'[h].original_task_id = T}
              IN  /\ Cardinality(created) <= 1
                  /\ Cardinality(written) <= 1
                  /\ tasks[T].completed => written = {}
                  /\ (tasks[T].completed /\ HasSuccessor(T))
                        => created = {}]_vars

\* ------------------------------------------------------------- updates
\* an update leaves the store as S and is logged as rec, task_data included
Updated(S, rec) ==
    /\ served < MaxUpdates
    /\ served' = served + 1
    /\ tasks' = S.tasks
    /\ nextTaskId' = S.nextTaskId
    /\ history' = S.history
    /\ nextHistId' = S.nextHistId
    /\ jobs' = S.jobs
    /\ last' = rec
    /\ UNCHANGED <<now, sess, scheduler_service>>

\* what an Update may carry
UpdatePatches ==
    [title : {NoneS, "b"}, description : {NoneS},
     completed : {"None", "False", "True"}, due_date : {NoDate, DueLater}]

OnUpdate(op, id, pa, r) ==
    Updated(r.S, [op |-> op, id |-> id, task_data |-> pa, result |-> r.result])

UpdCreate ==
    \E pat \in {NoneS, "weekly"} :
        OnUpdate("chat_create_task", nextTaskId, <<>>,
                 chat_create_task(Store, 1, "a", "d", NoneS, DueSoon, pat, 30,
                                  now))

UpdUpdate ==
    \E u \in Users, id \in TaskIds, pa \in UpdatePatches, ok \in BOOLEAN :
        OnUpdate("update_task", id, pa, update_task(Store, id, u, pa, ok, now))

UpdUpdateEnhanced ==
    \E u \in Users, id \in TaskIds, pa \in UpdatePatches, ok \in BOOLEAN :
        OnUpdate("update_task_enhanced", id, pa,
                 update_task_enhanced(Store, id, pa, u, ok, now))

UpdChatUpdate ==
    \E u \in Users, id \in TaskIds, pa \in UpdatePatches :
        OnUpdate("chat_update_task", id, pa, chat_update_task(Store, id, u, pa))

NextUpdate ==
    \/ UpdCreate
    \/ UpdUpdate
    \/ UpdUpdateEnhanced
    \/ UpdChatUpdate

SpecUpdate == Init /\ [][NextUpdate]_vars

UpdateOps == {"update_task", "update_task_enhanced", "chat_update_task"}

\* the fields task_data supplies
Supplied(pa) ==
    (IF pa.title # NoneS THEN {"title"} ELSE {})
        \cup (IF pa.description # NoneS THEN {"description"} ELSE {})
        \cup (IF pa.completed # "None" THEN {"completed"} ELSE {})
        \cup (IF pa.due_date # NoDate THEN {"due_date"} ELSE {})

\* C39: an Update that does not take the task from not completed to
\* completed (completed absent, false, or true on a completed task) writes no
\* history entry and creates no task; of the task it changes only the fields
\* supplied and the version, and it leaves the other tasks alone.
C39_PlainUpdateFrame ==
    [][(/\ served' # served
        /\ last'.op \in UpdateOps
        /\ last'.id \in DOMAIN tasks
        /\ ~(~tasks[last'.id].completed /\ last'.task_data.completed = "True"))
          => LET T == last'.id
             IN  /\ history' = history
                 /\ nextHistId' = nextHistId
                 /\ DOMAIN tasks' = DOMAIN tasks
                 /\ \A o \in DOMAIN tasks \ {T} : tasks'[o] = tasks[o]
                 /\ \A f \in DOMAIN tasks[T] :
                       tasks'[T][f] # tasks[T][f]
                           => f \in Supplied(last'.task_data) \cup {"version"}]_vars

\* completed = true was sent for a recurring task that was completed
\* already and has its COMPLETED entry and successor
C39_Witness ==
    /\ last.op \in {"update_task", "update_task_enhanced"}
    /\ last.result = "ok"
    /\ last.task_data.completed = "True"
    /\ last.id \in DOMAIN tasks
    /\ tasks[last.id].is_recurring
    /\ tasks[last.id].version = 3
    /\ Cardinality(DOMAIN history) = 1
    /\ Cardinality(DOMAIN tasks) = 2

\* C40: the daily cleanup job and cleanup_old_history with the clock as
\* cutoff are the same operation: whichever of the two runs, the store it
\* leaves is the store the other would have left, and the entries gone are
\* exactly those with retention_until before the clock.
C40_CleanupJobIsPurge ==
    [][(/\ served' # served
        /\ last'.op \in PurgeOps
        /\ last'.cutoff_date = now)
          => LET byJob == cleanup_old_history_job(Store, now).S
                 byPurge == cleanup_old_history(Store, now).S
             IN  /\ byJob = byPurge
                 /\ history' = byJob.history
                 /\ history' = byPurge.history
                 /\ tasks' = byJob.tasks
                 /\ tasks' = byPurge.tasks
                 /\ DOMAIN history \ DOMAIN history' = Expired(history, now)]_vars

\* the job has run at the instant one entry comes out of retention: an older
\* entry is gone, this one is kept
C40_Witness ==
    /\ last.op = "cleanup_old_history_job"
    /\ last.cutoff_date = now
    /\ Cardinality(DOMAIN history) < nextHistId - 1
    /\ \E h \in DOMAIN history : history[h].retention_until = now

====
